---- MODULE Spec2Model ----
(***************************************************************************)
(* A model of mock-server: a scripted HTTP response server.  The command   *)
(* line is parsed into a serverConfig (parse_args.go), newServer builds    *)
(* the handler with its catalog of responses (server.go), and main serves  *)
(* requests until the last response of the catalog has been dispensed,     *)
(* when the handler shuts the server down (server.go, main.go).            *)
(***************************************************************************)
EXTENDS Integers, Sequences, FiniteSets, TLC

(***************************************************************************)
(* Bounds of the model.                                                    *)
(***************************************************************************)
\* number of client requests (connections) that may be sent to the server
NumReq == 3
\* largest number of script entries on a generated command line
MaxEntries == 2
\* largest repeat count of a generated script entry
MaxRepeat == 2

(***************************************************************************)
(* Text.  TLC strings are opaque, so the few text conversions the program  *)
(* performs are given as tables over the tokens the model uses.            *)
(***************************************************************************)

\* strconv.Atoi on the tokens of the model; a token outside the table is
\* not an integer (Atoi returns an error).
Atoi ==
  [t \in {"200", "404", "0", "1", "2", "3", "-1"} |->
     CASE t = "200" -> 200
       [] t = "404" -> 404
       [] t = "0" -> 0
       [] t = "1" -> 1
       [] t = "2" -> 2
       [] t = "3" -> 3
       [] t = "-1" -> 0 - 1]

\* The flag name of the tokens that the flag package takes for a flag
\* (a leading "-" or "--" and at least one more character).
FlagName ==
  [t \in {"-r", "--repeat", "-H", "--header", "--body-file", "--trim-newline",
          "-h", "--help", "-p", "--port", "-c", "--cert", "-k", "--key",
          "-x", "-1"} |->
     CASE t = "-r" -> "r"
       [] t = "--repeat" -> "repeat"
       [] t = "-H" -> "H"
       [] t = "--header" -> "header"
       [] t = "--body-file" -> "body-file"
       [] t = "--trim-newline" -> "trim-newline"
       [] t = "-h" -> "h"
       [] t = "--help" -> "help"
       [] t = "-p" -> "p"
       [] t = "--port" -> "port"
       [] t = "-c" -> "c"
       [] t = "--cert" -> "cert"
       [] t = "-k" -> "k"
       [] t = "--key" -> "key"
       [] t = "-x" -> "x"
       [] t = "-1" -> "1"]

\* A header line "key: value" split at its first colon.  A line outside the
\* table has no colon: textproto rejects it.
HeaderLine ==
  [t \in {"x-a: 1", "X-A: 2", "x-b: 3", "X-B: 4", "x-a: 5"} |->
     CASE t = "x-a: 1" -> [key |-> "x-a", value |-> "1"]
       [] t = "X-A: 2" -> [key |-> "X-A", value |-> "2"]
       [] t = "x-b: 3" -> [key |-> "x-b", value |-> "3"]
       [] t = "X-B: 4" -> [key |-> "X-B", value |-> "4"]
       [] t = "x-a: 5" -> [key |-> "x-a", value |-> "5"]]

\* textproto.CanonicalMIMEHeaderKey: first letter and letters after a
\* hyphen in upper case, the rest in lower case.
CanonicalMIMEHeaderKey(k) ==
  CASE k \in {"x-a", "X-A", "X-a", "x-A"} -> "X-A"
    [] k \in {"x-b", "X-B", "X-b", "x-B"} -> "X-B"
    [] OTHER -> k

\* []byte(s): the bytes of a body argument.
Bytes(s) ==
  CASE s = "OK" -> <<"O", "K">>
    [] s = "NF" -> <<"N", "F">>
    [] s = "nOKn" -> <<"\n", "O", "K", "\n">>
    [] s = "f.txt" -> <<"f", ".", "t", "x", "t">>
    [] OTHER -> <<>>

\* The files of the file system: os.ReadFile fails for any other path.
Files == [p \in {"f.txt"} |-> <<"\n", "F", "\n">>]

RECURSIVE TrimLeft(_, _)
TrimLeft(b, c) ==
  IF b # <<>> /\ Head(b) = c THEN TrimLeft(Tail(b), c) ELSE b

RECURSIVE TrimRight(_, _)
TrimRight(b, c) ==
  IF b # <<>> /\ b[Len(b)] = c THEN TrimRight(SubSeq(b, 1, Len(b) - 1), c) ELSE b

\* bytes.Trim(body, "\n")
Trim(b, c) == TrimRight(TrimLeft(b, c), c)

(***************************************************************************)
(* parse_args.go                                                           *)
(***************************************************************************)

EmptyHeader == [k \in {} |-> <<>>]

\* One header line added to a MIME header: the key is canonicalized and the
\* value is appended to the values of that key.
AddHeaderLine(h, line) ==
  LET k == CanonicalMIMEHeaderKey(HeaderLine[line].key)
      v == HeaderLine[line].value
  IN  [x \in DOMAIN h \cup {k} |->
         IF x = k
           THEN (IF k \in DOMAIN h THEN Append(h[k], v) ELSE <<v>>)
           ELSE h[x]]

RECURSIVE ReadMIMEHeader(_, _)
\* textproto.Reader.ReadMIMEHeader on the joined lines: reading stops at the
\* first empty line; a line without a colon is an error.
ReadMIMEHeader(lines, h) ==
  IF lines = <<>> \/ Head(lines) = ""
    THEN [err |-> "nil", header |-> h]
    ELSE IF Head(lines) \notin DOMAIN HeaderLine
      THEN [err |-> "malformed MIME header line", header |-> EmptyHeader]
      ELSE ReadMIMEHeader(Tail(lines), AddHeaderLine(h, Head(lines)))

\* parseHeaders that drops the error of ReadMIMEHeader.
parseHeaders_IgnoresError(headerStrings) ==
  [err |-> "nil", header |-> ReadMIMEHeader(headerStrings, EmptyHeader).header]

parseHeaders(headerStrings) == ReadMIMEHeader(headerStrings, EmptyHeader)

\* repeatResponse with a loop that stops one copy short.
repeatResponse_OneShort(resp, repeat) == [i \in 1..(repeat - 1) |-> resp]

\* repeatResponse: repeat references to the same responseConfig.
repeatResponse(resp, repeat) == [i \in 1..repeat |-> resp]

loadBodyRaw(s) == [err |-> "nil", body |-> Bytes(s)]

loadBodyFile(s) ==
  IF s \in DOMAIN Files
    THEN [err |-> "nil", body |-> Files[s]]
    ELSE [err |-> "no such file", body |-> <<>>]

\* The option values of one response entry before its options are parsed.
RespOptInit ==
  [repeat |-> 1, optHeaders |-> <<>>, loadBody |-> "raw", trimNewline |-> FALSE]

RECURSIVE RespFlagParse(_, _)
\* flag.FlagSet.Parse with the flags of a response entry: it consumes flags
\* until the first argument that is not a flag, or returns the first error.
RespFlagParse(args, o) ==
  IF args = <<>> \/ (Head(args) # "--" /\ Head(args) \notin DOMAIN FlagName)
    THEN [err |-> "nil", opts |-> o, rest |-> args]
    ELSE IF Head(args) = "--"
      THEN [err |-> "nil", opts |-> o, rest |-> Tail(args)]
      ELSE LET name == FlagName[Head(args)]
               fail(e) == [err |-> e, opts |-> o, rest |-> <<>>]
           IN  CASE name \in {"r", "repeat"} ->
                      IF Len(args) < 2 THEN fail("flag needs an argument")
                      ELSE IF args[2] \notin DOMAIN Atoi THEN fail("invalid value")
                      ELSE RespFlagParse(SubSeq(args, 3, Len(args)),
                                         [o EXCEPT !.repeat = Atoi[args[2]]])
                 [] name \in {"H", "header"} ->
                      IF Len(args) < 2 THEN fail("flag needs an argument")
                      ELSE RespFlagParse(SubSeq(args, 3, Len(args)),
                                         [o EXCEPT !.optHeaders = Append(@, args[2])])
                 [] name = "body-file" ->
                      RespFlagParse(Tail(args), [o EXCEPT !.loadBody = "file"])
                 [] name = "trim-newline" ->
                      RespFlagParse(Tail(args), [o EXCEPT !.trimNewline = TRUE])
                 [] name \in {"h", "help"} -> fail("flag: help requested")
                 [] OTHER -> fail("flag provided but not defined")

\* The check of the repeat count with < in place of <=.
repeatNotPositive_NegativeOnly(repeat) == repeat < 0

\* parseResponsesPart: if repeat <= 0
repeatNotPositive(repeat) == repeat <= 0

RECURSIVE parseResponsesLoop_DropsIncomplete(_, _)
\* The loop of parseResponsesPart running while two arguments are left: a
\* last argument on its own is passed over.
parseResponsesLoop_DropsIncomplete(rest, resps) ==
  IF Len(rest) < 2 THEN [err |-> "nil", resps |-> resps]
  ELSE IF rest[1] \notin DOMAIN Atoi
    THEN [err |-> "invalid syntax", resps |-> <<>>]
  ELSE
    LET statusCode == Atoi[rest[1]]
        bodyArg == rest[2]
        f == RespFlagParse(SubSeq(rest, 3, Len(rest)), RespOptInit)
        loaded == IF f.opts.loadBody = "file" THEN loadBodyFile(bodyArg)
                                              ELSE loadBodyRaw(bodyArg)
        body == IF f.opts.trimNewline THEN Trim(loaded.body, "\n") ELSE loaded.body
        headers == parseHeaders(f.opts.optHeaders)
        resp == [statusCode |-> statusCode, body |-> body, headers |-> headers.header]
    IN  IF f.err # "nil" THEN [err |-> f.err, resps |-> <<>>]
        ELSE IF repeatNotPositive(f.opts.repeat)
          THEN [err |-> "repeat must be positive", resps |-> <<>>]
        ELSE IF loaded.err # "nil" THEN [err |-> loaded.err, resps |-> <<>>]
        ELSE IF headers.err # "nil" THEN [err |-> headers.err, resps |-> <<>>]
        ELSE parseResponsesLoop_DropsIncomplete(f.rest, resps \o repeatResponse(resp, f.opts.repeat))

RECURSIVE parseResponsesLoop_SharedHeaders(_, _)
\* The loop of parseResponsesPart with the header options declared once,
\* outside the loop: the header lines of an entry are added to the headers
\* of the entry before it.
parseResponsesLoop_SharedHeaders(rest, resps) ==
  IF rest = <<>> THEN [err |-> "nil", resps |-> resps]
  ELSE IF Len(rest) < 2
    THEN [err |-> "status code and body are required", resps |-> <<>>]
  ELSE IF rest[1] \notin DOMAIN Atoi
    THEN [err |-> "invalid syntax", resps |-> <<>>]
  ELSE
    LET statusCode == Atoi[rest[1]]
        bodyArg == rest[2]
        f == RespFlagParse(SubSeq(rest, 3, Len(rest)), RespOptInit)
        loaded == IF f.opts.loadBody = "file" THEN loadBodyFile(bodyArg)
                                              ELSE loadBodyRaw(bodyArg)
        body == IF f.opts.trimNewline THEN Trim(loaded.body, "\n") ELSE loaded.body
        headers == ReadMIMEHeader(f.opts.optHeaders,
                                  IF resps = <<>> THEN EmptyHeader
                                  ELSE resps[Len(resps)].headers)
        resp == [statusCode |-> statusCode, body |-> body, headers |-> headers.header]
    IN  IF f.err # "nil" THEN [err |-> f.err, resps |-> <<>>]
        ELSE IF repeatNotPositive(f.opts.repeat)
          THEN [err |-> "repeat must be positive", resps |-> <<>>]
        ELSE IF loaded.err # "nil" THEN [err |-> loaded.err, resps |-> <<>>]
        ELSE IF headers.err # "nil" THEN [err |-> headers.err, resps |-> <<>>]
        ELSE parseResponsesLoop_SharedHeaders(f.rest, resps \o repeatResponse(resp, f.opts.repeat))

RECURSIVE parseResponsesLoop(_, _)
\* The loop of parseResponsesPart: one <status> <body> [options] entry per
\* round, appended to resps repeat times.
parseResponsesLoop(rest, resps) ==
  IF rest = <<>> THEN [err |-> "nil", resps |-> resps]
  ELSE IF Len(rest) < 2
    THEN [err |-> "status code and body are required", resps |-> <<>>]
  ELSE IF rest[1] \notin DOMAIN Atoi
    THEN [err |-> "invalid syntax", resps |-> <<>>]
  ELSE
    LET statusCode == Atoi[rest[1]]
        bodyArg == rest[2]
        f == RespFlagParse(SubSeq(rest, 3, Len(rest)), RespOptInit)
        loaded == IF f.opts.loadBody = "file" THEN loadBodyFile(bodyArg)
                                              ELSE loadBodyRaw(bodyArg)
        body == IF f.opts.trimNewline THEN Trim(loaded.body, "\n") ELSE loaded.body
        headers == parseHeaders(f.opts.optHeaders)
        resp == [statusCode |-> statusCode, body |-> body, headers |-> headers.header]
    IN  IF f.err # "nil" THEN [err |-> f.err, resps |-> <<>>]
        ELSE IF repeatNotPositive(f.opts.repeat)
          THEN [err |-> "repeat must be positive", resps |-> <<>>]
        ELSE IF loaded.err # "nil" THEN [err |-> loaded.err, resps |-> <<>>]
        ELSE IF headers.err # "nil" THEN [err |-> headers.err, resps |-> <<>>]
        ELSE parseResponsesLoop(f.rest, resps \o repeatResponse(resp, f.opts.repeat))

\* parseResponsesPart without the length check it starts with.
parseResponsesPart_NoLengthCheck(args) ==
  parseResponsesLoop(args, <<>>)

parseResponsesPart(args) ==
  IF Len(args) < 2
    THEN [err |-> "status code and body are required", resps |-> <<>>]
    ELSE parseResponsesLoop(args, <<>>)

\* The option values of the global options before they are parsed.
GrobalOptInit ==
  [optPort |-> "8080", optHeaders |-> <<>>, optCertFile |-> "", optCertKeyFile |-> ""]

RECURSIVE GrobalFlagParse(_, _)
\* flag.FlagSet.Parse with the global flags; every global flag takes a value.
GrobalFlagParse(args, o) ==
  IF args = <<>> \/ (Head(args) # "--" /\ Head(args) \notin DOMAIN FlagName)
    THEN [err |-> "nil", opts |-> o, rest |-> args]
    ELSE IF Head(args) = "--"
      THEN [err |-> "nil", opts |-> o, rest |-> Tail(args)]
      ELSE LET name == FlagName[Head(args)]
               fail(e) == [err |-> e, opts |-> o, rest |-> <<>>]
               more == SubSeq(args, 3, Len(args))
           IN  IF name \in {"h", "help"} THEN fail("flag: help requested")
               ELSE IF name \notin {"p", "port", "H", "header", "c", "cert", "k", "key"}
                 THEN fail("flag provided but not defined")
               ELSE IF Len(args) < 2 THEN fail("flag needs an argument")
               ELSE CASE name \in {"p", "port"} ->
                           IF args[2] \notin DOMAIN Atoi THEN fail("invalid value")
                           ELSE GrobalFlagParse(more, [o EXCEPT !.optPort = args[2]])
                      [] name \in {"H", "header"} ->
                           GrobalFlagParse(more, [o EXCEPT !.optHeaders = Append(@, args[2])])
                      [] name \in {"c", "cert"} ->
                           GrobalFlagParse(more, [o EXCEPT !.optCertFile = args[2]])
                      [] name \in {"k", "key"} ->
                           GrobalFlagParse(more, [o EXCEPT !.optCertKeyFile = args[2]])

NoConfig == [addr |-> "", headers |-> EmptyHeader, responses |-> <<>>, tls |-> FALSE]

\* parseGrobalOptions that makes the TLS configuration from the certificate
\* option alone and does not ask for the key option.
parseGrobalOptions_CertAlone(args) ==
  LET f == GrobalFlagParse(args, GrobalOptInit)
      headers == parseHeaders(f.opts.optHeaders)
      fail(e) == [err |-> e, server |-> NoConfig, rest |-> <<>>]
  IN  IF f.err # "nil" THEN fail(f.err)
      ELSE IF f.opts.optCertFile = "" /\ f.opts.optCertKeyFile # ""
        THEN fail("cert option is not set")
      ELSE IF headers.err # "nil" THEN fail(headers.err)
      ELSE [err |-> "nil",
            server |-> [addr |-> f.opts.optPort, headers |-> headers.header,
                        responses |-> <<>>,
                        tls |-> (f.opts.optCertFile # "")],
            rest |-> f.rest]

parseGrobalOptions(args) ==
  LET f == GrobalFlagParse(args, GrobalOptInit)
      headers == parseHeaders(f.opts.optHeaders)
      fail(e) == [err |-> e, server |-> NoConfig, rest |-> <<>>]
  IN  IF f.err # "nil" THEN fail(f.err)
      ELSE IF f.opts.optCertFile # "" /\ f.opts.optCertKeyFile = ""
        THEN fail("key option is not set")
      ELSE IF f.opts.optCertFile = "" /\ f.opts.optCertKeyFile # ""
        THEN fail("cert option is not set")
      ELSE IF headers.err # "nil" THEN fail(headers.err)
      ELSE [err |-> "nil",
            server |-> [addr |-> f.opts.optPort, headers |-> headers.header,
                        responses |-> <<>>,
                        tls |-> (f.opts.optCertFile # "" /\ f.opts.optCertKeyFile # "")],
            rest |-> f.rest]

\* parseArgs that wraps the error of parseResponsesPart in a new error.
parseArgs_WrapsError(args) ==
  LET g == parseGrobalOptions(args)
      r == parseResponsesPart(g.rest)
  IN  IF g.err # "nil" THEN [err |-> g.err, server |-> NoConfig]
      ELSE IF r.err # "nil" THEN [err |-> "invalid responses", server |-> NoConfig]
      ELSE [err |-> "nil", server |-> [g.server EXCEPT !.responses = r.resps]]

parseArgs(args) ==
  LET g == parseGrobalOptions(args)
      r == parseResponsesPart(g.rest)
  IN  IF g.err # "nil" THEN [err |-> g.err, server |-> NoConfig]
      ELSE IF r.err # "nil" THEN [err |-> r.err, server |-> NoConfig]
      ELSE [err |-> "nil", server |-> [g.server EXCEPT !.responses = r.resps]]

(***************************************************************************)
(* server.go: construction                                                 *)
(***************************************************************************)

\* newResponse that appends the values of c.headers to the values cloned
\* from baseHeader instead of replacing them.
newResponse_Append(c, baseHeader) ==
  [statusCode |-> c.statusCode,
   body |-> c.body,
   headers |-> [k \in DOMAIN baseHeader \cup DOMAIN c.headers |->
                  (IF k \in DOMAIN baseHeader THEN baseHeader[k] ELSE <<>>)
                    \o (IF k \in DOMAIN c.headers THEN c.headers[k] ELSE <<>>)]]

\* maps.Clone(baseHeader) followed by maps.Copy(r.headers, c.headers): every
\* key of c.headers replaces the entry of the same key.
newResponse(c, baseHeader) ==
  [statusCode |-> c.statusCode,
   body |-> c.body,
   headers |-> [k \in DOMAIN baseHeader \cup DOMAIN c.headers |->
                  IF k \in DOMAIN c.headers THEN c.headers[k] ELSE baseHeader[k]]]

\* newResponse whose r.headers is baseHeader itself, not a clone of it:
\* maps.Copy then writes the entries of c.headers into baseHeader.
newResponseBase_NoClone(c, baseHeader) ==
  [k \in DOMAIN baseHeader \cup DOMAIN c.headers |->
     IF k \in DOMAIN c.headers THEN c.headers[k] ELSE baseHeader[k]]

\* The map baseHeader refers to when newResponse has returned: r.headers is
\* a new map made by maps.Clone and maps.Copy writes to that map only, so
\* baseHeader is as it was.
newResponseBase(c, baseHeader) == baseHeader

RECURSIVE newHandlerLoop(_, _, _)
\* The first i rounds of the loop of newHandler over respConfigs: the
\* responses built so far and the map grobalHeader refers to after them.
newHandlerLoop(grobalHeader, respConfigs, i) ==
  IF i = 0 THEN [responses |-> <<>>, grobalHeader |-> grobalHeader]
  ELSE LET prev == newHandlerLoop(grobalHeader, respConfigs, i - 1)
       IN  [responses |->
              Append(prev.responses, newResponse(respConfigs[i], prev.grobalHeader)),
            grobalHeader |-> newResponseBase(respConfigs[i], prev.grobalHeader)]

\* The catalog built by newHandler: one response per responseConfig.
newHandler(grobalHeader, respConfigs) ==
  newHandlerLoop(grobalHeader, respConfigs, Len(respConfigs)).responses

(***************************************************************************)
(* The command lines of the model.  A script is the sequence of entries    *)
(* the operator means to serve; Render spells it as command-line tokens.   *)
(***************************************************************************)

Itoa(n) == CASE n = 1 -> "1" [] n = 2 -> "2" [] n = 3 -> "3" [] n = 4 -> "4" [] OTHER -> "0"

RECURSIVE HeaderOptions(_, _)
HeaderOptions(lines, flag) ==
  IF lines = <<>> THEN <<>>
  ELSE <<flag, Head(lines)>> \o HeaderOptions(Tail(lines), flag)

RenderEntry(e) ==
  <<e.status, e.body>>
    \o (IF e.repeat = 1 THEN <<>> ELSE <<e.rflag, Itoa(e.repeat)>>)
    \o HeaderOptions(e.lines, "-H")

RECURSIVE RenderEntries(_)
RenderEntries(es) ==
  IF es = <<>> THEN <<>> ELSE RenderEntry(Head(es)) \o RenderEntries(Tail(es))

Render(g, es) == HeaderOptions(g, "--header") \o RenderEntries(es)

RECURSIVE RenderEntriesAt(_, _, _)
\* The entries with the tokens extra put after the options of entry
\* number at.
RenderEntriesAt(es, at, extra) ==
  IF es = <<>> THEN <<>>
  ELSE RenderEntry(Head(es)) \o (IF at = 1 THEN extra ELSE <<>>)
         \o RenderEntriesAt(Tail(es), at - 1, extra)

\* The command line of a script: the global header options, the tokens
\* gextra, the entries with the tokens extra after entry number at, and the
\* tokens tail.
RenderScript(s) ==
  HeaderOptions(s.grobal, "--header") \o s.gextra
    \o RenderEntriesAt(s.entries, s.at, s.extra) \o s.tail

\* The script that is nothing but global header lines and entries.
PlainScript(g, es) ==
  [grobal |-> g, entries |-> es, gextra |-> <<>>, at |-> 0, extra |-> <<>>, tail |-> <<>>]

RECURSIVE RepeatSum(_, _)
\* r1 + ... + rn of the script entries es
RepeatSum(es, n) == IF n = 0 THEN 0 ELSE RepeatSum(es, n - 1) + es[n].repeat

\* header lines given with one option group
LineChoices ==
  {<<>>, <<"x-a: 1">>, <<"X-A: 2">>, <<"x-b: 3", "X-B: 4">>, <<"x-a: 1", "x-b: 3">>}

EntryChoices ==
  [status : {"200", "404"}, body : {"OK"}, repeat : 1..MaxRepeat,
   rflag : {"-r"}, lines : LineChoices]

ScriptChoices == UNION {[1..n -> EntryChoices] : n \in 1..MaxEntries}

\* The scripts served in the runs of the server: catalogs of one, two and
\* three responses, and a catalog of one response whose status is 0.
ServedScripts ==
  { <<[status |-> "200", body |-> "OK", repeat |-> 1, rflag |-> "-r", lines |-> <<>>]>>,
    <<[status |-> "200", body |-> "OK", repeat |-> 2, rflag |-> "--repeat",
       lines |-> <<"x-b: 3", "X-B: 4">>]>>,
    <<[status |-> "200", body |-> "OK", repeat |-> 2, rflag |-> "-r", lines |-> <<>>],
      [status |-> "404", body |-> "NF", repeat |-> 1, rflag |-> "-r",
       lines |-> <<"X-A: 2">>]>>,
    <<[status |-> "0", body |-> "OK", repeat |-> 1, rflag |-> "-r", lines |-> <<>>]>> }

(***************************************************************************)
(* State                                                                   *)
(***************************************************************************)
VARIABLES
  script,      \* the global header lines and entries the command line was written from
  args,        \* os.Args[1:]
  mainPc,      \* position of main
  sc,          \* the serverConfig returned by parseArgs
  mainErr,     \* the variable err of main
  exitStatus,  \* exit status of the process, -1 while it runs
  served,      \* which serve call main made: "none", "plain" or "tls"
  listener,    \* the listener of http.Server: "none", "open" or "closed"
  responses,   \* handler.responses
  pos,         \* handler.pos
  mu,          \* holder of handler.mu, 0 when unlocked
  logMu,       \* holder of logger.mu, 0 when unlocked
  reqPc,       \* position of the goroutine serving each request
  reqI,        \* the local i of getResponse
  reqResp,     \* resp of ServeHTTP: an index into the catalog, or Nil
  reqIsLast,   \* isLast of ServeHTTP
  logged,      \* where the request was logged: "none", "stdout" or "stderr"
  w,           \* the response writer of each request
  sdPc,        \* position of the goroutine running shutdownServer, by spawning request
  sdErr,       \* the result of http.Server.Shutdown in that goroutine
  received,    \* the value main received from shutdownCh
  order,       \* catalog indices in the order successful getResponse calls returned them
  contents,    \* the requests the clients may send: method and path
  req,         \* the *http.Request given to ServeHTTP for each request, "" before it
  printed      \* what main has printed: a sequence of [to, text]

vars == <<script, args, mainPc, sc, mainErr, exitStatus, served, listener, responses,
          pos, mu, logMu, reqPc, reqI, reqResp, reqIsLast, logged, w, sdPc, sdErr,
          received, order, contents, req, printed>>

mainVars == <<mainPc, sc, mainErr, exitStatus, served, printed>>
handlerVars == <<pos, mu, logMu, reqPc, reqI, reqResp, reqIsLast, logged, w, order, req>>
shutdownVars == <<sdPc, sdErr, received>>

Reqs == 1..NumReq
\* a nil *response
Nil == 0 - 1

NewWriter == [header |-> EmptyHeader, code |-> 0, body |-> <<>>]

\* the process has not exited
Running == exitStatus = 0 - 1

\* requests whose handler has been called and has not returned or panicked
InFlight == {r \in Reqs : reqPc[r] \notin {"unsent", "done", "aborted", "panicked"}}

InitWithContents(scripts, cs) ==
  /\ script \in scripts
  /\ contents = cs
  /\ req = [r \in Reqs |-> ""]
  /\ printed = <<>>
  /\ args = RenderScript(script)
  /\ mainPc = "parseArgs"
  /\ sc = NoConfig
  /\ mainErr = "nil"
  /\ exitStatus = 0 - 1
  /\ served = "none"
  /\ listener = "none"
  /\ responses = <<>>
  /\ pos = 0
  /\ mu = 0
  /\ logMu = 0
  /\ reqPc = [r \in Reqs |-> "unsent"]
  /\ reqI = [r \in Reqs |-> 0]
  /\ reqResp = [r \in Reqs |-> Nil]
  /\ reqIsLast = [r \in Reqs |-> FALSE]
  /\ logged = [r \in Reqs |-> "none"]
  /\ w = [r \in Reqs |-> NewWriter]
  /\ sdPc = [r \in Reqs |-> "none"]
  /\ sdErr = [r \in Reqs |-> "nil"]
  /\ received = "none"
  /\ order = <<>>

\* The runs in which every client sends the same request.
InitWith(scripts) == InitWithContents(scripts, {"GET /"})

Init == InitWith({PlainScript(<<"x-a: 5">>, es) : es \in ServedScripts})

(***************************************************************************)
(* main.go                                                                 *)
(***************************************************************************)

\* main that reports the error of parseArgs and goes on to newServer.
MainParseArgs_NoExit ==
  /\ mainPc = "parseArgs"
  /\ LET p == parseArgs(args)
     IN  /\ mainErr' = p.err
         /\ sc' = p.server
         /\ mainPc' = "newServer"
         /\ printed' = IF p.err = "nil" THEN printed
                        ELSE <<[to |-> "stderr", text |-> p.err],
                               [to |-> "stderr", text |-> "usage"]>>
         /\ UNCHANGED exitStatus
  /\ UNCHANGED <<script, args, contents, served, listener, responses>>
  /\ UNCHANGED handlerVars
  /\ UNCHANGED shutdownVars

\* main: parseArgs and the handling of its error.
MainParseArgs ==
  /\ mainPc = "parseArgs"
  /\ LET p == parseArgs(args)
     IN  /\ mainErr' = p.err
         /\ sc' = p.server
         /\ IF p.err = "nil"
              THEN mainPc' = "newServer" /\ UNCHANGED <<exitStatus, printed>>
              ELSE IF p.err = "flag: help requested"
                THEN /\ printed' = <<[to |-> "stdout", text |-> "usage"]>>
                     /\ mainPc' = "exited"
                     /\ exitStatus' = 0
                ELSE /\ printed' = <<[to |-> "stderr", text |-> p.err],
                                     [to |-> "stderr", text |-> "usage"]>>
                     /\ mainPc' = "exited"
                     /\ exitStatus' = 1
  /\ UNCHANGED <<script, args, contents, served, listener, responses>>
  /\ UNCHANGED handlerVars
  /\ UNCHANGED shutdownVars

\* main: server := newServer(sc)
MainNewServer ==
  /\ mainPc = "newServer"
  /\ responses' = newHandler(sc.headers, sc.responses)
  /\ sc' = [sc EXCEPT !.headers =
              newHandlerLoop(sc.headers, sc.responses, Len(sc.responses)).grobalHeader]
  /\ mainPc' = "listen"
  /\ UNCHANGED <<script, args, contents, printed, mainErr, exitStatus, served, listener>>
  /\ UNCHANGED handlerVars
  /\ UNCHANGED shutdownVars

\* main that goes on to waitForShutDown whatever the serve call returned.
MainListen_WaitsAnyway ==
  /\ mainPc = "listen"
  /\ served' = IF sc.tls THEN "tls" ELSE "plain"
  /\ \/ /\ listener' = "open"
        /\ mainPc' = "serving"
        /\ UNCHANGED <<mainErr, exitStatus, printed>>
     \/ /\ listener' = listener
        /\ mainErr' = "listen failed"
        /\ mainPc' = "wait"
        /\ UNCHANGED <<exitStatus, printed>>
  /\ UNCHANGED <<script, args, contents, sc, responses>>
  /\ UNCHANGED handlerVars
  /\ UNCHANGED shutdownVars

\* main: ListenAndServe or ListenAndServeTLS starts listening, or fails.
MainListen ==
  /\ mainPc = "listen"
  /\ served' = IF sc.tls THEN "tls" ELSE "plain"
  /\ \/ /\ listener' = "open"
        /\ mainPc' = "serving"
        /\ UNCHANGED <<mainErr, exitStatus, printed>>
     \/ /\ listener' = listener
        /\ mainErr' = "listen failed"
        /\ printed' = <<[to |-> "stderr", text |-> "listen failed"]>>
        /\ mainPc' = "exited"
        /\ exitStatus' = 1
  /\ UNCHANGED <<script, args, contents, sc, responses>>
  /\ UNCHANGED handlerVars
  /\ UNCHANGED shutdownVars

\* main: the serve call returns http.ErrServerClosed once the listener has
\* been closed by Shutdown; main goes on to waitForShutDown.
MainServeReturns ==
  /\ mainPc = "serving"
  /\ listener = "closed"
  /\ mainErr' = "ErrServerClosed"
  /\ mainPc' = "wait"
  /\ UNCHANGED <<script, args, contents, printed, sc, exitStatus, served, listener, responses>>
  /\ UNCHANGED handlerVars
  /\ UNCHANGED shutdownVars

\* waitForShutDown receiving from a goroutine that sends before its call of
\* Shutdown has returned.
waitForShutDown_Early(g) ==
  /\ Running
  /\ mainPc = "wait"
  /\ sdPc[g] \in {"waitIdle", "send"}
  /\ received' = sdErr[g]
  /\ sdPc' = [sdPc EXCEPT ![g] = "done"]
  /\ mainPc' = "returned"
  /\ exitStatus' = 0
  /\ UNCHANGED <<script, args, contents, printed, sc, mainErr, served, listener, responses, sdErr>>
  /\ UNCHANGED handlerVars

\* waitForShutDown: <-s.shutdownCh, a rendezvous with the send of goroutine
\* g; the received value is dropped and main returns.
waitForShutDown(g) ==
  /\ Running
  /\ mainPc = "wait"
  /\ sdPc[g] = "send"
  /\ received' = sdErr[g]
  /\ sdPc' = [sdPc EXCEPT ![g] = "done"]
  /\ mainPc' = "returned"
  /\ exitStatus' = 0
  /\ UNCHANGED <<script, args, contents, printed, sc, mainErr, served, listener, responses, sdErr>>
  /\ UNCHANGED handlerVars

(***************************************************************************)
(* server.go: serving                                                      *)
(***************************************************************************)

\* The http.Server accepts a connection and calls ServeHTTP for its request.
Accept(r) ==
  /\ Running
  /\ mainPc = "serving"
  /\ listener = "open"
  /\ reqPc[r] = "unsent"
  /\ reqPc' = [reqPc EXCEPT ![r] = "Lock"]
  /\ \E c \in contents : req' = [req EXCEPT ![r] = c]
  /\ UNCHANGED <<script, args, contents, listener, responses>>
  /\ UNCHANGED mainVars
  /\ UNCHANGED <<pos, mu, logMu, reqI, reqResp, reqIsLast, logged, w, order>>
  /\ UNCHANGED shutdownVars

\* getResponse entered without waiting for the mutex.
getResponseLock_NoMutex(r) ==
  /\ Running
  /\ reqPc[r] = "Lock"
  /\ mu' = r
  /\ reqI' = [reqI EXCEPT ![r] = pos]
  /\ reqPc' = [reqPc EXCEPT ![r] = "check"]
  /\ UNCHANGED <<script, args, contents, listener, responses>>
  /\ UNCHANGED mainVars
  /\ UNCHANGED <<pos, logMu, reqResp, reqIsLast, logged, w, order, req>>
  /\ UNCHANGED shutdownVars

\* getResponse: h.mu.Lock(); i := h.pos
getResponseLock(r) ==
  /\ Running
  /\ reqPc[r] = "Lock"
  /\ mu = 0
  /\ mu' = r
  /\ reqI' = [reqI EXCEPT ![r] = pos]
  /\ reqPc' = [reqPc EXCEPT ![r] = "check"]
  /\ UNCHANGED <<script, args, contents, listener, responses>>
  /\ UNCHANGED mainVars
  /\ UNCHANGED <<pos, logMu, reqResp, reqIsLast, logged, w, order, req>>
  /\ UNCHANGED shutdownVars

\* getResponse without h.pos++.
getResponseCheck_NoIncrement(r) ==
  /\ Running
  /\ reqPc[r] = "check"
  /\ IF reqI[r] < Len(responses)
       THEN /\ pos' = pos
            /\ reqResp' = [reqResp EXCEPT ![r] = reqI[r]]
            /\ reqIsLast' = [reqIsLast EXCEPT ![r] = (pos + 1 >= Len(responses))]
            /\ order' = Append(order, reqI[r])
       ELSE /\ reqResp' = [reqResp EXCEPT ![r] = Nil]
            /\ reqIsLast' = [reqIsLast EXCEPT ![r] = FALSE]
            /\ UNCHANGED <<pos, order>>
  /\ mu' = IF mu = r THEN 0 ELSE mu
  /\ reqPc' = [reqPc EXCEPT ![r] = "ServeHTTP"]
  /\ UNCHANGED <<script, args, contents, listener, responses>>
  /\ UNCHANGED mainVars
  /\ UNCHANGED <<logMu, reqI, logged, w, req>>
  /\ UNCHANGED shutdownVars

\* getResponse with h.pos++ before the comparison with the catalog length:
\* an exhausted call moves the cursor too.
getResponseCheck_CountsExhausted(r) ==
  /\ Running
  /\ reqPc[r] = "check"
  /\ pos' = pos + 1
  /\ IF reqI[r] < Len(responses)
       THEN /\ reqResp' = [reqResp EXCEPT ![r] = reqI[r]]
            /\ reqIsLast' = [reqIsLast EXCEPT ![r] = (pos + 1 >= Len(responses))]
            /\ order' = Append(order, reqI[r])
       ELSE /\ reqResp' = [reqResp EXCEPT ![r] = Nil]
            /\ reqIsLast' = [reqIsLast EXCEPT ![r] = FALSE]
            /\ UNCHANGED order
  /\ mu' = IF mu = r THEN 0 ELSE mu
  /\ reqPc' = [reqPc EXCEPT ![r] = "ServeHTTP"]
  /\ UNCHANGED <<script, args, contents, listener, responses>>
  /\ UNCHANGED mainVars
  /\ UNCHANGED <<logMu, reqI, logged, w, req>>
  /\ UNCHANGED shutdownVars

\* getResponse that rewinds the cursor when all responses were used.
getResponseCheck_Rewind(r) ==
  /\ Running
  /\ reqPc[r] = "check"
  /\ IF reqI[r] < Len(responses)
       THEN /\ pos' = pos + 1
            /\ reqResp' = [reqResp EXCEPT ![r] = reqI[r]]
            /\ reqIsLast' = [reqIsLast EXCEPT ![r] = (pos + 1 >= Len(responses))]
            /\ order' = Append(order, reqI[r])
       ELSE /\ reqResp' = [reqResp EXCEPT ![r] = Nil]
            /\ reqIsLast' = [reqIsLast EXCEPT ![r] = FALSE]
            /\ pos' = 0
            /\ UNCHANGED order
  /\ mu' = IF mu = r THEN 0 ELSE mu
  /\ reqPc' = [reqPc EXCEPT ![r] = "ServeHTTP"]
  /\ UNCHANGED <<script, args, contents, listener, responses>>
  /\ UNCHANGED mainVars
  /\ UNCHANGED <<logMu, reqI, logged, w, req>>
  /\ UNCHANGED shutdownVars

\* getResponse that hands out the last response again when all were used.
getResponseCheck_Replay(r) ==
  /\ Running
  /\ reqPc[r] = "check"
  /\ IF reqI[r] < Len(responses)
       THEN /\ pos' = pos + 1
            /\ reqResp' = [reqResp EXCEPT ![r] = reqI[r]]
            /\ reqIsLast' = [reqIsLast EXCEPT ![r] = (pos + 1 >= Len(responses))]
            /\ order' = Append(order, reqI[r])
       ELSE /\ reqResp' = [reqResp EXCEPT ![r] = Len(responses) - 1]
            /\ reqIsLast' = [reqIsLast EXCEPT ![r] = FALSE]
            /\ order' = Append(order, Len(responses) - 1)
            /\ pos' = pos
  /\ mu' = IF mu = r THEN 0 ELSE mu
  /\ reqPc' = [reqPc EXCEPT ![r] = "ServeHTTP"]
  /\ UNCHANGED <<script, args, contents, listener, responses>>
  /\ UNCHANGED mainVars
  /\ UNCHANGED <<logMu, reqI, logged, w, req>>
  /\ UNCHANGED shutdownVars

\* getResponse that computes isLast from the position before the increment.
getResponseCheck_LastOfOld(r) ==
  /\ Running
  /\ reqPc[r] = "check"
  /\ IF reqI[r] < Len(responses)
       THEN /\ pos' = pos + 1
            /\ reqResp' = [reqResp EXCEPT ![r] = reqI[r]]
            /\ reqIsLast' = [reqIsLast EXCEPT ![r] = (pos >= Len(responses))]
            /\ order' = Append(order, reqI[r])
       ELSE /\ reqResp' = [reqResp EXCEPT ![r] = Nil]
            /\ reqIsLast' = [reqIsLast EXCEPT ![r] = FALSE]
            /\ UNCHANGED <<pos, order>>
  /\ mu' = IF mu = r THEN 0 ELSE mu
  /\ reqPc' = [reqPc EXCEPT ![r] = "ServeHTTP"]
  /\ UNCHANGED <<script, args, contents, listener, responses>>
  /\ UNCHANGED mainVars
  /\ UNCHANGED <<logMu, reqI, logged, w, req>>
  /\ UNCHANGED shutdownVars

\* getResponse that looks at the request: a POST is answered with the first
\* response of the catalog and does not move the cursor.
getResponseCheck_ByContent(r) ==
  /\ Running
  /\ reqPc[r] = "check"
  /\ IF req[r] = "POST /b" /\ Len(responses) > 0
       THEN /\ reqResp' = [reqResp EXCEPT ![r] = 0]
            /\ reqIsLast' = [reqIsLast EXCEPT ![r] = FALSE]
            /\ UNCHANGED <<pos, order>>
       ELSE IF reqI[r] < Len(responses)
       THEN /\ pos' = pos + 1
            /\ reqResp' = [reqResp EXCEPT ![r] = reqI[r]]
            /\ reqIsLast' = [reqIsLast EXCEPT ![r] = (pos + 1 >= Len(responses))]
            /\ order' = Append(order, reqI[r])
       ELSE /\ reqResp' = [reqResp EXCEPT ![r] = Nil]
            /\ reqIsLast' = [reqIsLast EXCEPT ![r] = FALSE]
            /\ UNCHANGED <<pos, order>>
  /\ mu' = IF mu = r THEN 0 ELSE mu
  /\ reqPc' = [reqPc EXCEPT ![r] = "ServeHTTP"]
  /\ UNCHANGED <<script, args, contents, listener, responses>>
  /\ UNCHANGED mainVars
  /\ UNCHANGED <<logMu, reqI, logged, w, req>>
  /\ UNCHANGED shutdownVars

\* getResponse that compares with <= instead of <.
getResponseCheck_OffByOne(r) ==
  /\ Running
  /\ reqPc[r] = "check"
  /\ IF reqI[r] <= Len(responses)
       THEN /\ pos' = pos + 1
            /\ reqResp' = [reqResp EXCEPT ![r] = reqI[r]]
            /\ reqIsLast' = [reqIsLast EXCEPT ![r] = (pos + 1 >= Len(responses))]
            /\ order' = Append(order, reqI[r])
       ELSE /\ reqResp' = [reqResp EXCEPT ![r] = Nil]
            /\ reqIsLast' = [reqIsLast EXCEPT ![r] = FALSE]
            /\ UNCHANGED <<pos, order>>
  /\ mu' = IF mu = r THEN 0 ELSE mu
  /\ reqPc' = [reqPc EXCEPT ![r] = "ServeHTTP"]
  /\ UNCHANGED <<script, args, contents, listener, responses>>
  /\ UNCHANGED mainVars
  /\ UNCHANGED <<logMu, reqI, logged, w, req>>
  /\ UNCHANGED shutdownVars

\* getResponse without the deferred h.mu.Unlock(): the mutex stays held when
\* the call returns.
getResponseCheck_NoUnlock(r) ==
  /\ Running
  /\ reqPc[r] = "check"
  /\ IF reqI[r] < Len(responses)
       THEN /\ pos' = pos + 1
            /\ reqResp' = [reqResp EXCEPT ![r] = reqI[r]]
            /\ reqIsLast' = [reqIsLast EXCEPT ![r] = (pos + 1 >= Len(responses))]
            /\ order' = Append(order, reqI[r])
       ELSE /\ reqResp' = [reqResp EXCEPT ![r] = Nil]
            /\ reqIsLast' = [reqIsLast EXCEPT ![r] = FALSE]
            /\ UNCHANGED <<pos, order>>
  /\ mu' = mu
  /\ reqPc' = [reqPc EXCEPT ![r] = "ServeHTTP"]
  /\ UNCHANGED <<script, args, contents, listener, responses>>
  /\ UNCHANGED mainVars
  /\ UNCHANGED <<logMu, reqI, logged, w, req>>
  /\ UNCHANGED shutdownVars

\* getResponse that reports isLast one response early.
getResponseCheck_LastEarly(r) ==
  /\ Running
  /\ reqPc[r] = "check"
  /\ IF reqI[r] < Len(responses)
       THEN /\ pos' = pos + 1
            /\ reqResp' = [reqResp EXCEPT ![r] = reqI[r]]
            /\ reqIsLast' = [reqIsLast EXCEPT ![r] = (pos + 1 >= Len(responses) - 1)]
            /\ order' = Append(order, reqI[r])
       ELSE /\ reqResp' = [reqResp EXCEPT ![r] = Nil]
            /\ reqIsLast' = [reqIsLast EXCEPT ![r] = FALSE]
            /\ UNCHANGED <<pos, order>>
  /\ mu' = IF mu = r THEN 0 ELSE mu
  /\ reqPc' = [reqPc EXCEPT ![r] = "ServeHTTP"]
  /\ UNCHANGED <<script, args, contents, listener, responses>>
  /\ UNCHANGED mainVars
  /\ UNCHANGED <<logMu, reqI, logged, w, req>>
  /\ UNCHANGED shutdownVars

\* getResponse: if i < len(h.responses) { h.pos++; return h.responses[i],
\* h.pos >= len(h.responses) }; return nil, false; and the deferred
\* h.mu.Unlock()
getResponseCheck(r) ==
  /\ Running
  /\ reqPc[r] = "check"
  /\ IF reqI[r] < Len(responses)
       THEN /\ pos' = pos + 1
            /\ reqResp' = [reqResp EXCEPT ![r] = reqI[r]]
            /\ reqIsLast' = [reqIsLast EXCEPT ![r] = (pos + 1 >= Len(responses))]
            /\ order' = Append(order, reqI[r])
       ELSE /\ reqResp' = [reqResp EXCEPT ![r] = Nil]
            /\ reqIsLast' = [reqIsLast EXCEPT ![r] = FALSE]
            /\ UNCHANGED <<pos, order>>
  /\ mu' = IF mu = r THEN 0 ELSE mu
  /\ reqPc' = [reqPc EXCEPT ![r] = "ServeHTTP"]
  /\ UNCHANGED <<script, args, contents, listener, responses>>
  /\ UNCHANGED mainVars
  /\ UNCHANGED <<logMu, reqI, logged, w, req>>
  /\ UNCHANGED shutdownVars

\* ServeHTTP that never starts the shutdown goroutine.
ServeHTTP_NoShutdown(r) ==
  /\ Running
  /\ reqPc[r] = "ServeHTTP"
  /\ IF reqResp[r] = Nil
       THEN /\ reqPc' = [reqPc EXCEPT ![r] = "aborted"]
            /\ sdPc' = sdPc
       ELSE /\ reqPc' = [reqPc EXCEPT ![r] = "DumpRequest"]
            /\ sdPc' = sdPc
  /\ UNCHANGED <<script, args, contents, listener, responses>>
  /\ UNCHANGED mainVars
  /\ UNCHANGED <<pos, mu, logMu, reqI, reqResp, reqIsLast, logged, w, order, req>>
  /\ UNCHANGED <<sdErr, received>>

\* ServeHTTP that starts the shutdown goroutine before it aborts.
ServeHTTP_ShutdownOnAbort(r) ==
  /\ Running
  /\ reqPc[r] = "ServeHTTP"
  /\ IF reqResp[r] = Nil
       THEN /\ reqPc' = [reqPc EXCEPT ![r] = "aborted"]
            /\ sdPc' = [sdPc EXCEPT ![r] = "Shutdown"]
       ELSE /\ reqPc' = [reqPc EXCEPT ![r] = "DumpRequest"]
            /\ sdPc' = IF reqIsLast[r] THEN [sdPc EXCEPT ![r] = "Shutdown"] ELSE sdPc
  /\ UNCHANGED <<script, args, contents, listener, responses>>
  /\ UNCHANGED mainVars
  /\ UNCHANGED <<pos, mu, logMu, reqI, reqResp, reqIsLast, logged, w, order, req>>
  /\ UNCHANGED <<sdErr, received>>

\* ServeHTTP that calls h.shutdownServer() itself instead of starting a
\* goroutine for it: the handler is inside the call from then on.
ServeHTTP_SyncShutdown(r) ==
  /\ Running
  /\ reqPc[r] = "ServeHTTP"
  /\ IF reqResp[r] = Nil
       THEN /\ reqPc' = [reqPc EXCEPT ![r] = "aborted"]
            /\ sdPc' = sdPc
       ELSE /\ reqPc' = [reqPc EXCEPT ![r] = IF reqIsLast[r] THEN "shutdownServer"
                                                             ELSE "DumpRequest"]
            /\ sdPc' = IF reqIsLast[r] THEN [sdPc EXCEPT ![r] = "Shutdown"] ELSE sdPc
  /\ UNCHANGED <<script, args, contents, listener, responses>>
  /\ UNCHANGED mainVars
  /\ UNCHANGED <<pos, mu, logMu, reqI, reqResp, reqIsLast, logged, w, order, req>>
  /\ UNCHANGED <<sdErr, received>>

\* ServeHTTP that goes from getResponse to the writes: the request is not
\* dumped and logged before its response is written.
ServeHTTP_NoLog(r) ==
  /\ Running
  /\ reqPc[r] = "ServeHTTP"
  /\ IF reqResp[r] = Nil
       THEN /\ reqPc' = [reqPc EXCEPT ![r] = "aborted"]
            /\ sdPc' = sdPc
       ELSE /\ reqPc' = [reqPc EXCEPT ![r] = "headers"]
            /\ sdPc' = IF reqIsLast[r] THEN [sdPc EXCEPT ![r] = "Shutdown"] ELSE sdPc
  /\ UNCHANGED <<script, args, contents, listener, responses>>
  /\ UNCHANGED mainVars
  /\ UNCHANGED <<pos, mu, logMu, reqI, reqResp, reqIsLast, logged, w, order, req>>
  /\ UNCHANGED <<sdErr, received>>

\* ServeHTTP that calls getResponse once more after a call that returned a
\* response which is not the last one, and goes on with the second result.
ServeHTTP_CallsAgain(r) ==
  /\ Running
  /\ reqPc[r] = "ServeHTTP"
  /\ IF reqResp[r] = Nil
       THEN /\ reqPc' = [reqPc EXCEPT ![r] = "aborted"]
            /\ sdPc' = sdPc
       ELSE IF ~reqIsLast[r]
         THEN /\ reqPc' = [reqPc EXCEPT ![r] = "Lock"]
              /\ sdPc' = sdPc
         ELSE /\ reqPc' = [reqPc EXCEPT ![r] = "DumpRequest"]
              /\ sdPc' = [sdPc EXCEPT ![r] = "Shutdown"]
  /\ UNCHANGED <<script, args, contents, listener, responses>>
  /\ UNCHANGED mainVars
  /\ UNCHANGED <<pos, mu, logMu, reqI, reqResp, reqIsLast, logged, w, order, req>>
  /\ UNCHANGED <<sdErr, received>>

\* ServeHTTP after getResponse: panic(http.ErrAbortHandler) when resp is
\* nil; go h.shutdownServer() when isLast.
ServeHTTP(r) ==
  /\ Running
  /\ reqPc[r] = "ServeHTTP"
  /\ IF reqResp[r] = Nil
       THEN /\ reqPc' = [reqPc EXCEPT ![r] = "aborted"]
            /\ sdPc' = sdPc
       ELSE /\ reqPc' = [reqPc EXCEPT ![r] = "DumpRequest"]
            /\ sdPc' = IF reqIsLast[r] THEN [sdPc EXCEPT ![r] = "Shutdown"] ELSE sdPc
  /\ UNCHANGED <<script, args, contents, listener, responses>>
  /\ UNCHANGED mainVars
  /\ UNCHANGED <<pos, mu, logMu, reqI, reqResp, reqIsLast, logged, w, order, req>>
  /\ UNCHANGED <<sdErr, received>>

\* logger.log entered without l.mu.Lock().
logLock_NoMutex(r) ==
  /\ Running
  /\ reqPc[r] = "DumpRequest"
  /\ logMu' = r
  /\ \E err \in {"nil", "dump failed"} :
       reqPc' = [reqPc EXCEPT ![r] = IF err = "nil" THEN "logStdout" ELSE "logStderr"]
  /\ UNCHANGED <<script, args, contents, listener, responses>>
  /\ UNCHANGED mainVars
  /\ UNCHANGED <<pos, mu, reqI, reqResp, reqIsLast, logged, w, order, req>>
  /\ UNCHANGED shutdownVars

\* ServeHTTP: httputil.DumpRequest succeeds or fails, and h.logger.log is
\* entered: l.mu.Lock()
logLock(r) ==
  /\ Running
  /\ reqPc[r] = "DumpRequest"
  /\ logMu = 0
  /\ logMu' = r
  /\ \E err \in {"nil", "dump failed"} :
       reqPc' = [reqPc EXCEPT ![r] = IF err = "nil" THEN "logStdout" ELSE "logStderr"]
  /\ UNCHANGED <<script, args, contents, listener, responses>>
  /\ UNCHANGED mainVars
  /\ UNCHANGED <<pos, mu, reqI, reqResp, reqIsLast, logged, w, order, req>>
  /\ UNCHANGED shutdownVars

\* ServeHTTP that returns when it has logged that the dump of the request
\* failed, without writing the response.
logPrint_ReturnOnDumpError(r) ==
  /\ Running
  /\ reqPc[r] \in {"logStdout", "logStderr"}
  /\ logged' = [logged EXCEPT ![r] = IF reqPc[r] = "logStdout" THEN "stdout" ELSE "stderr"]
  /\ logMu' = IF logMu = r THEN 0 ELSE logMu
  /\ reqPc' = [reqPc EXCEPT ![r] = IF reqPc[r] = "logStdout" THEN "headers" ELSE "done"]
  /\ UNCHANGED <<script, args, contents, listener, responses>>
  /\ UNCHANGED mainVars
  /\ UNCHANGED <<pos, mu, reqI, reqResp, reqIsLast, w, order, req>>
  /\ UNCHANGED shutdownVars

\* logger.log: fmt.Fprintln(w, msg) and the deferred l.mu.Unlock()
logPrint(r) ==
  /\ Running
  /\ reqPc[r] \in {"logStdout", "logStderr"}
  /\ logged' = [logged EXCEPT ![r] = IF reqPc[r] = "logStdout" THEN "stdout" ELSE "stderr"]
  /\ logMu' = IF logMu = r THEN 0 ELSE logMu
  /\ reqPc' = [reqPc EXCEPT ![r] = "headers"]
  /\ UNCHANGED <<script, args, contents, listener, responses>>
  /\ UNCHANGED mainVars
  /\ UNCHANGED <<pos, mu, reqI, reqResp, reqIsLast, w, order, req>>
  /\ UNCHANGED shutdownVars

\* The loop over resp.headers with Set for every value: the last value of a
\* key replaces the values before it.
CopiedHeader_SetOnly(h, win) ==
  [K \in {CanonicalMIMEHeaderKey(k) : k \in DOMAIN h} |->
     <<h[win[K]][Len(h[win[K]])]>>]

\* The header a writer holds after the loop over resp.headers: Set of the
\* first value and Add of the others, under the canonical key.  win names,
\* for each canonical key, the key of resp.headers that the loop visited
\* last among those with that canonical key.
CopiedHeader(h, win) ==
  [K \in {CanonicalMIMEHeaderKey(k) : k \in DOMAIN h} |-> h[win[K]]]

\* ServeHTTP that hands the catalog entry's own header map to the writer and
\* empties the body it has sent: the entry is changed by the write.
ServeWrite_ConsumesEntry(r) ==
  /\ Running
  /\ reqPc[r] = "headers"
  /\ LET resp == responses[reqResp[r] + 1]
         Ks == {CanonicalMIMEHeaderKey(k) : k \in DOMAIN resp.headers}
     IN  \E win \in [Ks -> DOMAIN resp.headers] :
           /\ \A K \in Ks : CanonicalMIMEHeaderKey(win[K]) = K
           /\ w' = [w EXCEPT ![r] = [header |-> CopiedHeader(resp.headers, win),
                                     code |-> resp.statusCode,
                                     body |-> resp.body]]
           /\ responses' = [responses EXCEPT ![reqResp[r] + 1] =
                              [statusCode |-> resp.statusCode,
                               body |-> <<>>,
                               headers |-> CopiedHeader(resp.headers, win)]]
  /\ reqPc' = [reqPc EXCEPT ![r] = "done"]
  /\ UNCHANGED <<script, args, contents, listener>>
  /\ UNCHANGED mainVars
  /\ UNCHANGED <<pos, mu, logMu, reqI, reqResp, reqIsLast, logged, order, req>>
  /\ UNCHANGED shutdownVars

\* ServeHTTP: the loop over resp.headers, w.WriteHeader(resp.statusCode),
\* w.Write(resp.body) and the return.  WriteHeader of net/http panics when
\* the code is below 100 or above 999: the handler then ends with the
\* headers set, no status and no body written, and the server drops the
\* connection.
ServeWrite(r) ==
  /\ Running
  /\ reqPc[r] = "headers"
  /\ LET resp == responses[reqResp[r] + 1]
         Ks == {CanonicalMIMEHeaderKey(k) : k \in DOMAIN resp.headers}
     IN  \E win \in [Ks -> DOMAIN resp.headers] :
           /\ \A K \in Ks : CanonicalMIMEHeaderKey(win[K]) = K
           /\ IF resp.statusCode \in 100..999
                THEN /\ w' = [w EXCEPT ![r] = [header |-> CopiedHeader(resp.headers, win),
                                               code |-> resp.statusCode,
                                               body |-> resp.body]]
                     /\ reqPc' = [reqPc EXCEPT ![r] = "done"]
                ELSE /\ w' = [w EXCEPT ![r] = [header |-> CopiedHeader(resp.headers, win),
                                               code |-> 0,
                                               body |-> <<>>]]
                     /\ reqPc' = [reqPc EXCEPT ![r] = "panicked"]
  /\ UNCHANGED <<script, args, contents, listener, responses>>
  /\ UNCHANGED mainVars
  /\ UNCHANGED <<pos, mu, logMu, reqI, reqResp, reqIsLast, logged, order, req>>
  /\ UNCHANGED shutdownVars

(***************************************************************************)
(* server.go: the shutdown function of newServer,                          *)
(*   func() { ch <- s.Shutdown(context.Background()) }                     *)
(***************************************************************************)

\* s.Shutdown: the listener is closed; closing it may fail.
ShutdownClose(g) ==
  /\ Running
  /\ sdPc[g] = "Shutdown"
  /\ listener' = "closed"
  /\ \E lnerr \in {"nil", "close failed"} : sdErr' = [sdErr EXCEPT ![g] = lnerr]
  /\ sdPc' = [sdPc EXCEPT ![g] = "waitIdle"]
  /\ UNCHANGED <<script, args, contents, responses, received>>
  /\ UNCHANGED mainVars
  /\ UNCHANGED handlerVars

\* Shutdown that returns without waiting for the connections that are
\* serving a request, as http.Server.Close does.
ShutdownReturn_NoWait(g) ==
  /\ Running
  /\ sdPc[g] = "waitIdle"
  /\ sdPc' = [sdPc EXCEPT ![g] = "send"]
  /\ UNCHANGED <<script, args, contents, listener, responses, sdErr, received>>
  /\ UNCHANGED mainVars
  /\ UNCHANGED handlerVars

\* s.Shutdown returns when no connection is serving a request any more; the
\* goroutine then goes to its send on the channel.
ShutdownReturn(g) ==
  /\ Running
  /\ sdPc[g] = "waitIdle"
  /\ InFlight = {}
  /\ sdPc' = [sdPc EXCEPT ![g] = "send"]
  /\ UNCHANGED <<script, args, contents, listener, responses, sdErr, received>>
  /\ UNCHANGED mainVars
  /\ UNCHANGED handlerVars

Next ==
  \/ MainParseArgs
  \/ MainNewServer
  \/ MainListen
  \/ MainServeReturns
  \/ \E g \in Reqs : waitForShutDown(g)
  \/ \E r \in Reqs : Accept(r)
  \/ \E r \in Reqs : getResponseLock(r)
  \/ \E r \in Reqs : getResponseCheck(r)
  \/ \E r \in Reqs : ServeHTTP(r)
  \/ \E r \in Reqs : logLock(r)
  \/ \E r \in Reqs : logPrint(r)
  \/ \E r \in Reqs : ServeWrite(r)
  \/ \E g \in Reqs : ShutdownClose(g)
  \/ \E g \in Reqs : ShutdownReturn(g)

Spec == Init /\ [][Next]_vars

\* The run of parseArgs and newServer alone, over the generated command lines.
\* The command line without any entry is one of them.
BuildInit ==
  InitWith({PlainScript(g, es) : g \in LineChoices, es \in ScriptChoices \cup {<<>>}})

BuildNext == MainParseArgs \/ MainNewServer

BuildSpec == BuildInit /\ [][BuildNext]_vars

\* Tokens added to a command line: after the global header options,
GrobalExtraChoices ==
  {<<"-h">>, <<"--help">>, <<"--help", "--header", "x-a: 1">>,
   <<"-H", "bad">>, <<"--header", "bad">>}

\* after the options of an entry,
EntryExtraChoices ==
  {<<"-r", "0">>, <<"--repeat", "-1">>, <<"-r", "x">>,
   <<"-h">>, <<"--help">>, <<"-h", "-r", "2">>,
   <<"-H", "bad">>, <<"--header", "bad">>}

\* and after the last entry.
TailChoices == {<<"200">>, <<"abc", "OK">>, <<"abc">>}

PlainEntryChoices ==
  [status : {"200", "404"}, body : {"OK"}, repeat : 1..MaxRepeat,
   rflag : {"-r"}, lines : {<<>>, <<"x-a: 1">>}]

PlainEntries == UNION {[1..n -> PlainEntryChoices] : n \in 0..MaxEntries}

\* The command lines given to parseArgs alone: scripts of 0..MaxEntries
\* entries, as they are or with tokens added in one place.
OptionScripts ==
  LET base == {PlainScript(g, es) : g \in {<<>>, <<"x-b: 3">>}, es \in PlainEntries}
  IN  base
        \cup {[b EXCEPT !.gextra = x] : b \in base, x \in GrobalExtraChoices}
        \cup {[b EXCEPT !.tail = x] : b \in base, x \in TailChoices}
        \cup UNION {{[b EXCEPT !.at = i, !.extra = x] :
                       i \in 1..Len(b.entries), x \in EntryExtraChoices} : b \in base}

ParseInit == InitWith(OptionScripts)

ParseSpec == ParseInit /\ [][BuildNext]_vars

\* Every step but the arrival of a request: the steps of the goroutines of
\* the process, which the Go scheduler runs whenever they can run.
Progress ==
  \/ MainParseArgs
  \/ MainNewServer
  \/ MainListen
  \/ MainServeReturns
  \/ \E g \in Reqs : waitForShutDown(g)
  \/ \E r \in Reqs : getResponseLock(r)
  \/ \E r \in Reqs : getResponseCheck(r)
  \/ \E r \in Reqs : ServeHTTP(r)
  \/ \E r \in Reqs : logLock(r)
  \/ \E r \in Reqs : logPrint(r)
  \/ \E r \in Reqs : ServeWrite(r)
  \/ \E g \in Reqs : ShutdownClose(g)
  \/ \E g \in Reqs : ShutdownReturn(g)

\* The runs checked for termination serve the catalogs of one and of two
\* responses.
FairInit ==
  InitWith({PlainScript(<<>>, es) :
              es \in {s \in ServedScripts : RepeatSum(s, Len(s)) <= 2}})

FairSpec == FairInit /\ [][Next]_vars /\ WF_vars(Progress)

\* The runs in which the clients send requests of different methods and
\* paths to the catalog of two responses.
RequestInit ==
  InitWithContents({PlainScript(<<>>, es) :
                      es \in {s \in ServedScripts : RepeatSum(s, Len(s)) = 2}},
                   {"GET /a", "POST /b"})

RequestSpec == RequestInit /\ [][Next]_vars

\* The steps of the goroutines that serve requests.
HandlerProgress ==
  \/ \E r \in Reqs : getResponseLock(r)
  \/ \E r \in Reqs : getResponseCheck(r)
  \/ \E r \in Reqs : ServeHTTP(r)
  \/ \E r \in Reqs : logLock(r)
  \/ \E r \in Reqs : logPrint(r)
  \/ \E r \in Reqs : ServeWrite(r)

\* Runs in which only the handlers are sure to be scheduled: main may never
\* reach waitForShutDown and a shutdown goroutine may never take a step.
HandlerFairSpec == FairInit /\ [][Next]_vars /\ WF_vars(HandlerProgress)

(***************************************************************************)
(* Properties                                                              *)
(***************************************************************************)

N == Len(responses)
Served == {r \in Reqs : reqPc[r] = "done"}
Aborted == {r \in Reqs : reqPc[r] = "aborted"}
\* requests whose getResponse call has returned a response
Claimed == {r \in Reqs : reqResp[r] # Nil}

\* C1: the successful getResponse calls, in the order in which they pass
\* through the mutex, return the catalog indices 0, 1, 2, ... in that order,
\* and no index is returned to two callers.
C1_CatalogOrder ==
  /\ \A k \in 1..Len(order) : order[k] = k - 1
  /\ Len(order) <= N
  /\ \A r1, r2 \in Claimed : r1 # r2 => reqResp[r1] # reqResp[r2]
  /\ Len(order) = Cardinality(Claimed)

\* One entry has been dispensed, a second caller is inside getResponse with
\* the next index and a third caller waits for the mutex.
C1_Witness ==
  /\ order = <<0>>
  /\ \E r1, r2 \in Reqs :
       reqPc[r1] = "Lock" /\ mu = r2 /\ reqPc[r2] = "check" /\ reqI[r2] = 1 /\ N = 3

\* C2: when every request handed to ServeHTTP has been handled and there
\* were at least N of them, exactly N had their scripted response written
\* and the others were aborted with nothing written.
C2_ExactlyNServed ==
  (N >= 1 /\ InFlight = {} /\ Cardinality(Served \cup Aborted) >= N) =>
     /\ Cardinality(Served) = N
     /\ Cardinality(Aborted) = Cardinality(Served \cup Aborted) - N
     /\ \A r \in Aborted : w[r] = NewWriter
     /\ \A r \in Served : /\ reqResp[r] \in 0..(N - 1)
                          /\ w[r].code = responses[reqResp[r] + 1].statusCode
                          /\ w[r].body = responses[reqResp[r] + 1].body

\* Three requests were handled on a catalog of two responses.
C2_Witness ==
  N = 2 /\ InFlight = {} /\ Cardinality(Served) = 2 /\ Cardinality(Aborted) = 1

\* C3: isLast is true for exactly one getResponse call, the one that
\* returns index N-1; exhausted calls return (nil, false).
C3_IsLastOnce ==
  N >= 1 =>
    /\ \A r \in Reqs : reqIsLast[r] <=> (reqResp[r] = N - 1)
    /\ Cardinality({r \in Reqs : reqIsLast[r]}) <= 1
    /\ pos >= N => Cardinality({r \in Reqs : reqIsLast[r]}) = 1

\* On a catalog of two, one call got isLast = false, one got isLast = true
\* and one was exhausted.
C3_Witness ==
  /\ N = 2
  /\ \E r1, r2, r3 \in Reqs :
       /\ reqPc[r1] = "done" /\ reqResp[r1] = 0 /\ ~reqIsLast[r1]
       /\ reqPc[r2] = "done" /\ reqResp[r2] = 1 /\ reqIsLast[r2]
       /\ reqPc[r3] = "aborted" /\ reqResp[r3] = Nil /\ ~reqIsLast[r3]

\* C4: shutdownServer is invoked at most once, so Shutdown is called at
\* most once and at most one value is sent on shutdownCh.
C4_ShutdownAtMostOnce ==
  /\ Cardinality({g \in Reqs : sdPc[g] # "none"}) <= 1
  /\ Cardinality({g \in Reqs : sdPc[g] \in {"waitIdle", "send", "done"}}) <= 1
  /\ Cardinality({g \in Reqs : sdPc[g] = "done"}) <= 1

\* The shutdown goroutine runs while other requests race for the catalog.
C4_Witness ==
  /\ \E g \in Reqs : sdPc[g] = "waitIdle"
  /\ \E r1, r2 \in Reqs : r1 # r2 /\ reqPc[r1] = "Lock" /\ reqPc[r2] = "check"

\* C5: once the last catalog entry has been dispensed, the listener is
\* eventually closed, the send on shutdownCh is received and main returns.
C5_EventuallyTerminates ==
  (N >= 1 /\ pos >= N) ~>
     (mainPc = "returned" /\ listener = "closed" /\ received # "none")

\* main has returned after the whole catalog was served.
C5_Witness ==
  mainPc = "returned" /\ N = 2 /\ Cardinality(Served) = 2 /\ Cardinality(Aborted) = 1

\* C6: an exhausted request is aborted with nothing written to its writer,
\* nothing logged and no shutdown goroutine started.
C6_AbortWritesNothing ==
  /\ \A r \in Aborted :
       /\ reqResp[r] = Nil
       /\ w[r] = NewWriter
       /\ logged[r] = "none"
       /\ sdPc[r] = "none"
  /\ \A r \in Reqs :
       reqPc[r] \in {"DumpRequest", "logStdout", "logStderr", "headers", "done"}
         => reqResp[r] # Nil

\* A request was aborted after the catalog was used up.
C6_Witness ==
  \E r \in Aborted : pos = N /\ reqI[r] = N /\ N >= 1

Lower(k) ==
  CASE k \in {"x-a", "X-A", "X-a", "x-A"} -> "x-a"
    [] k \in {"x-b", "X-B", "X-b", "x-B"} -> "x-b"
    [] OTHER -> k

\* C7: in the resolved headers of every catalog entry, a key of the
\* per-response headers carries exactly the per-response values, a key of the
\* global headers that the response does not give (in any case) keeps the
\* global values, and there is no other key.
C7_HeaderCompose ==
  mainPc = "listen" =>
    \A j \in 1..N :
      LET o == sc.responses[j].headers
          b == sc.headers
          h == responses[j].headers
      IN  /\ \A k \in DOMAIN o : k \in DOMAIN h /\ h[k] = o[k]
          /\ \A k \in DOMAIN b :
               (\A k2 \in DOMAIN o : Lower(k2) # Lower(k)) => k \in DOMAIN h /\ h[k] = b[k]
          /\ \A k \in DOMAIN h :
               IF \E k2 \in DOMAIN o : Lower(k2) = Lower(k)
                 THEN k \in DOMAIN o
                 ELSE k \in DOMAIN b
          /\ \A k1, k2 \in DOMAIN h : Lower(k1) = Lower(k2) => k1 = k2

\* A response overrides one global header, spelled in another case, and
\* keeps the other global header.
C7_Witness ==
  /\ mainPc = "listen"
  /\ script.grobal = <<"x-a: 1", "x-b: 3">>
  /\ \E j \in 1..N :
       /\ script.entries[1].lines = <<"X-A: 2">>
       /\ responses[j].headers = [k \in {"X-A", "X-B"} |-> IF k = "X-A" THEN <<"2">> ELSE <<"3">>]

\* C8: the catalog is the script entries in order, entry i repeated
\* repeat_i times, the copies of an entry equal in status, body and headers.
C8_RepeatExpansion ==
  mainPc = "listen" =>
    /\ N = RepeatSum(script.entries, Len(script.entries))
    /\ \A i \in 1..Len(script.entries) :
         \A c \in 1..script.entries[i].repeat :
           LET e == script.entries[i]
               first == RepeatSum(script.entries, i - 1) + 1
               j == RepeatSum(script.entries, i - 1) + c
           IN  /\ j \in 1..N
               /\ responses[j].statusCode = Atoi[e.status]
               /\ responses[j].body = Bytes(e.body)
               /\ responses[j] = responses[first]
               /\ \A l \in 1..Len(e.lines) :
                    CanonicalMIMEHeaderKey(HeaderLine[e.lines[l]].key)
                      \in DOMAIN responses[j].headers

\* A script of two different entries, the first repeated.
C8_Witness ==
  /\ mainPc = "listen"
  /\ Len(script.entries) = 2
  /\ script.entries[1].repeat = 2
  /\ script.entries[1].status # script.entries[2].status
  /\ N = 2 + script.entries[2].repeat

\* C9: main receives from shutdownCh only in a step in which a shutdown
\* goroutine whose Shutdown call has returned sends, and then no handler is
\* running any more.
C9_WaitAfterShutdown ==
  [][received' # received =>
       /\ \E g \in Reqs : sdPc[g] = "send" /\ sdPc'[g] = "done"
       /\ InFlight = {}
       /\ listener = "closed"]_vars

\* main has received from the channel after requests were served.
C9_Witness ==
  received # "none" /\ mainPc = "returned" /\ Cardinality(Served) >= 2

\* C10: the result of Shutdown decides how main ends: an error of Shutdown
\* reaches main and makes the exit status non-zero, nil gives success.
C10_ShutdownErrorPropagated ==
  mainPc = "returned" =>
    /\ received = "nil" => exitStatus = 0
    /\ received # "nil" => exitStatus # 0

\* C11: a command line whose script is empty is refused with an error before
\* a server is constructed, so no handler with an empty catalog exists: once
\* newServer has run the catalog has at least one entry.
C11_NoEmptyCatalog ==
  /\ mainPc \notin {"parseArgs", "newServer", "exited"} => Len(responses) >= 1
  /\ (script.entries = <<>> /\ mainPc # "parseArgs") =>
       /\ mainPc = "exited"
       /\ mainErr = "status code and body are required"
       /\ exitStatus = 1
       /\ responses = <<>>

\* The command line that holds global header options and no entry has been
\* refused.
C11_Witness ==
  /\ script.entries = <<>>
  /\ script.grobal # <<>>
  /\ mainPc = "exited"
  /\ mainErr = "status code and body are required"
  /\ responses = <<>>

\* C12 as stated: the shutdown goroutine of a handler is started only after
\* that handler has written its response.
C12_WriteBeforeTrigger ==
  \A r \in Reqs : sdPc[r] # "none" => reqPc[r] = "done"

\* C12: the handler that received isLast = true starts the shutdown
\* goroutine when getResponse has returned, before it dumps and logs the
\* request and before it writes the response: while it is at any of these
\* later steps, and when it has written, its goroutine has been started.
C12_TriggerBeforeWrite ==
  \A r \in Reqs :
    (reqIsLast[r] /\ reqPc[r] \in {"DumpRequest", "logStdout", "logStderr", "headers",
                                    "done", "panicked"})
      => sdPc[r] # "none"

\* The shutdown goroutine has closed the listener while the handler that
\* started it has written nothing yet.
C12_Witness ==
  \E r \in Reqs :
    /\ reqIsLast[r]
    /\ reqPc[r] = "headers"
    /\ w[r] = NewWriter
    /\ sdPc[r] = "waitIdle"
    /\ listener = "closed"

\* C13: a shutdown goroutine exists only when the cursor has reached the end
\* of the catalog; at most one is ever started, and it is started by the
\* handler that was given the last entry, as soon as that handler has passed
\* the go statement.
C13_ShutdownByLastHandler ==
  /\ (\E g \in Reqs : sdPc[g] # "none") => pos = N
  /\ \A g \in Reqs : sdPc[g] # "none" => (N >= 1 /\ reqResp[g] = N - 1)
  /\ Cardinality({g \in Reqs : sdPc[g] # "none"}) <= 1
  /\ \A r \in Reqs :
       (N >= 1 /\ reqResp[r] = N - 1 /\ reqPc[r] \notin {"check", "ServeHTTP"})
         => sdPc[r] # "none"

\* The handler given the last of three entries has started the goroutine
\* while the two handlers given the earlier entries are still at work.
C13_Witness ==
  /\ N = 3
  /\ \E r, r1, r2 \in Reqs :
       /\ reqResp[r] = 2 /\ sdPc[r] = "Shutdown"
       /\ reqResp[r1] = 0 /\ reqPc[r1] = "ServeHTTP"
       /\ reqResp[r2] = 1 /\ reqPc[r2] = "DumpRequest"

\* C14: the handler that was given the last response finishes its write
\* whatever the shutdown goroutine and main do: it waits neither for
\* Shutdown to return nor for a receiver on shutdownCh, also in the runs in
\* which main never calls waitForShutDown.
C14_LastHandlerCompletes ==
  \A r \in Reqs : reqIsLast[r] ~> (reqPc[r] = "done" /\ w[r] # NewWriter)

\* The handler that started the shutdown goroutine has returned while that
\* goroutine has not yet called Shutdown and main is still in its serve call.
C14_Witness ==
  \E r \in Reqs :
    /\ reqIsLast[r]
    /\ reqPc[r] = "done"
    /\ sdPc[r] = "Shutdown"
    /\ mainPc = "serving"
    /\ received = "none"

\* C15: handler.mu is held only by a goroutine that is inside getResponse,
\* between the read of pos and the return; no goroutine holds it while it
\* dumps, logs, writes or starts the shutdown goroutine.  So a handler that
\* waits for the mutex waits only for a holder that can finish getResponse
\* at once, whatever the other handlers are doing.
C15_MutexOnlyInGetResponse ==
  /\ mu # 0 => reqPc[mu] = "check"
  /\ \A r \in Reqs : reqPc[r] # "check" => mu # r
  /\ \A r \in Reqs :
       reqPc[r] = "Lock" =>
         \/ ENABLED getResponseLock(r)
         \/ \E h \in Reqs : h # r /\ mu = h /\ ENABLED getResponseCheck(h)

\* One handler holds the logger's mutex, another has not yet written its
\* response, and a third is inside getResponse.
C15_Witness ==
  \E r1, r2, r3 \in Reqs :
    /\ reqPc[r1] = "logStdout" /\ logMu = r1
    /\ reqPc[r2] = "headers"
    /\ reqPc[r3] = "check" /\ mu = r3

\* C16: when Shutdown has returned, and so when main has come back from
\* waitForShutDown or the process has exited, every handler that was given
\* a catalog entry has written that entry's status code and body.
C16_GracefulShutdown ==
  ((\E g \in Reqs : sdPc[g] \in {"send", "done"}) \/ mainPc = "returned" \/ ~Running) =>
    \A r \in Claimed :
      /\ reqPc[r] = "done"
      /\ w[r].code = responses[reqResp[r] + 1].statusCode
      /\ w[r].body = responses[reqResp[r] + 1].body

\* Shutdown has returned, main has not received yet, and the three
\* responses of the catalog are written.
C16_Witness ==
  /\ N = 3
  /\ \E g \in Reqs : sdPc[g] = "send"
  /\ received = "none"
  /\ Cardinality(Served) = 3

\* C17: the cursor stays within 0..len(responses), and it is read and
\* written only by the goroutine that holds handler.mu: at most one
\* goroutine is between the read and the increment, and it is the holder.
C17_CursorInRange ==
  /\ 0 <= pos /\ pos <= N
  /\ Cardinality({r \in Reqs : reqPc[r] = "check"}) <= 1
  /\ \A r \in Reqs : reqPc[r] = "check" => (mu = r /\ reqI[r] = pos)

\* The cursor is at the end of the catalog of two and a third caller is
\* inside getResponse, holding the mutex, about to find the catalog exhausted.
C17_Witness ==
  /\ N = 2 /\ pos = 2
  /\ \E r \in Reqs : reqPc[r] = "check" /\ mu = r /\ reqI[r] = 2

\* C18: once newHandler has returned, no step changes the catalog: its
\* length and the status code, body and header map of every entry stay as
\* they were built, also in the steps that copy headers to a writer.
C18_CatalogImmutable ==
  [][mainPc \notin {"parseArgs", "newServer"} => responses' = responses]_vars

\* Two responses of a catalog whose entries carry headers have been written
\* and the catalog is what newHandler built.
C18_Witness ==
  /\ Cardinality(Served) >= 2
  /\ \E r \in Served : w[r].header # EmptyHeader
  /\ responses = newHandler(sc.headers, sc.responses)

\* C19: building the catalog changes neither the global header map nor the
\* header map of any responseConfig, and every header of a catalog entry
\* under a key that the entry's own options do not set carries the global
\* value: the overrides of one entry do not show in another.
C19_ComposeNoSideEffect ==
  [][mainPc = "newServer" =>
       /\ sc' = sc
       /\ Len(responses') = Len(sc.responses)
       /\ \A j \in 1..Len(responses') :
            \A K \in DOMAIN responses'[j].headers :
              \/ K \in DOMAIN sc.responses[j].headers
              \/ K \in DOMAIN sc.headers /\ responses'[j].headers[K] = sc.headers[K]]_vars

\* The first entry overrides a global header with another value, the last
\* entry does not, and the last entry carries the global value.
C19_Witness ==
  /\ mainPc = "listen"
  /\ Len(sc.responses) >= 2
  /\ \E K \in DOMAIN sc.headers \cap DOMAIN sc.responses[1].headers :
       /\ K \notin DOMAIN sc.responses[N].headers
       /\ sc.responses[1].headers[K] # sc.headers[K]
       /\ responses[1].headers[K] = sc.responses[1].headers[K]
       /\ responses[N].headers[K] = sc.headers[K]

\* C20: a handler whose getResponse call returned an entry goes on to write
\* the status code and the body of exactly that entry; the entry is not
\* dropped, also when the dump of the request failed and the failure was
\* logged to stderr.
C20_ClaimedIsWritten ==
  \A r \in Reqs :
    (reqResp[r] # Nil) ~>
      /\ reqPc[r] = "done"
      /\ logged[r] \in {"stdout", "stderr"}
      /\ w[r].code = responses[reqResp[r] + 1].statusCode
      /\ w[r].body = responses[reqResp[r] + 1].body

\* The dump of a request failed, the failure went to stderr, and the entry
\* the handler was given is written.
C20_Witness ==
  \E r \in Reqs :
    /\ reqResp[r] = 1
    /\ logged[r] = "stderr"
    /\ reqPc[r] = "done"
    /\ w[r].code = responses[2].statusCode
    /\ w[r].body = responses[2].body

\* C21: when ServeHTTP has run its header loop for a dispensed entry, the
\* writer of that request holds, under every key of the entry's headers,
\* exactly the entry's values in their order, and it holds no other key:
\* nothing of another key or of another request is mixed in.
C21_WriterHeaders ==
  \A r \in Reqs :
    reqPc[r] \in {"done", "panicked"} =>
      LET resp == responses[reqResp[r] + 1]
      IN  /\ DOMAIN w[r].header = DOMAIN resp.headers
          /\ \A k \in DOMAIN resp.headers : w[r].header[k] = resp.headers[k]

\* A response whose headers hold a key of two values and a key taken from
\* the global headers has been written after another response.
C21_Witness ==
  \E r \in Reqs :
    /\ reqPc[r] = "done"
    /\ reqResp[r] = 1
    /\ Cardinality(DOMAIN w[r].header) = 2
    /\ \E k \in DOMAIN w[r].header : Len(w[r].header[k]) = 2
    /\ w[r].header = responses[2].headers

\* C22: a command line in which the repeat option of an entry is given 0, a
\* negative number or a token that is not an integer is refused by
\* parseArgs with an error: main exits with status 1, there is no
\* configuration and no catalog.  On every accepted command line each entry
\* has a repeat count of at least 1 and so at least one response.
C22_RepeatRejected ==
  /\ (script.at # 0 /\ mainPc # "parseArgs"
        /\ script.extra \in {<<"-r", "0">>, <<"--repeat", "-1">>, <<"-r", "x">>}) =>
       /\ mainPc = "exited"
       /\ mainErr = (IF script.extra = <<"-r", "x">> THEN "invalid value"
                                                   ELSE "repeat must be positive")
       /\ exitStatus = 1
       /\ sc = NoConfig
       /\ responses = <<>>
  /\ mainPc = "listen" =>
       /\ script.extra \notin {<<"-r", "0">>, <<"--repeat", "-1">>, <<"-r", "x">>}
       /\ Len(sc.responses) = RepeatSum(script.entries, Len(script.entries))
       /\ Len(sc.responses) >= Len(script.entries)

\* The second of two entries was given --repeat -1 after a valid first entry
\* and the command line has been refused.
C22_Witness ==
  /\ Len(script.entries) = 2
  /\ script.at = 2
  /\ script.extra = <<"--repeat", "-1">>
  /\ mainPc = "exited"
  /\ mainErr = "repeat must be positive"
  /\ responses = <<>>

\* C23: every entry of the catalog built from an accepted command line has a
\* valid HTTP status code, between 100 and 599, and no handler is refused
\* by WriteHeader for the status code of the entry it was given.
C23_StatusValid ==
  /\ mainPc \notin {"parseArgs", "newServer", "exited"} =>
       \A j \in 1..N : responses[j].statusCode \in 100..599
  /\ \A r \in Reqs : reqPc[r] # "panicked"

\* C24: what a request is given depends only on the value the cursor had
\* when the request took the mutex, not on the request: it is the entry at
\* that value, or nothing when that value is the catalog length, and isLast
\* is true exactly when that value is the last index.  So runs that differ
\* only in the methods and paths of the requests dispense the same entries
\* in the same order and start the shutdown at the same request.
C24_ContentIndependent ==
  \A r \in Reqs :
    reqPc[r] \notin {"unsent", "Lock", "check"} =>
      /\ reqResp[r] = (IF reqI[r] < N THEN reqI[r] ELSE Nil)
      /\ reqIsLast[r] = (reqI[r] = N - 1)
      /\ (sdPc[r] # "none") => reqI[r] = N - 1

\* A GET and a POST were given the two entries in one order, a POST came
\* too late and was aborted.
C24_Witness ==
  \E r1, r2, r3 \in Reqs :
    /\ req[r1] = "POST /b" /\ reqResp[r1] = 0 /\ reqPc[r1] = "done"
    /\ req[r2] = "GET /a" /\ reqResp[r2] = 1 /\ reqPc[r2] = "done" /\ sdPc[r2] # "none"
    /\ req[r3] = "POST /b" /\ reqPc[r3] = "aborted"

\* C25: when -h or --help stands among the global options or among the
\* options of a response entry, with valid arguments before and after it,
\* parseArgs returns flag.ErrHelp and no configuration, and main prints the
\* usage to stdout and exits with status 0 without building a server.
C25_HelpRequested ==
  LET help == {"-h", "--help"}
      asked == \/ script.gextra # <<>> /\ Head(script.gextra) \in help
               \/ script.at # 0 /\ script.extra # <<>> /\ Head(script.extra) \in help
  IN  (asked /\ mainPc # "parseArgs") =>
        /\ mainPc = "exited"
        /\ mainErr = "flag: help requested"
        /\ sc = NoConfig
        /\ printed = <<[to |-> "stdout", text |-> "usage"]>>
        /\ exitStatus = 0
        /\ responses = <<>>

\* Help was asked for among the options of the second entry, with a repeat
\* option after it, behind a global header and a valid first entry.
C25_Witness ==
  /\ script.grobal # <<>>
  /\ Len(script.entries) = 2
  /\ script.at = 2
  /\ script.extra = <<"-h", "-r", "2">>
  /\ mainPc = "exited"
  /\ exitStatus = 0
  /\ printed = <<[to |-> "stdout", text |-> "usage"]>>

\* C26: when what is left after the global options is not a non-empty
\* sequence of complete entries -- nothing at all, a status without a body
\* as the first or as a later entry, or a status that is not an integer --
\* parseArgs returns an error and no configuration, and main exits with
\* status 1.
C26_IncompleteEntries ==
  LET nothing == script.entries = <<>> /\ script.gextra = <<>> /\ script.tail = <<>>
  IN  ((nothing \/ script.tail # <<>>) /\ mainPc # "parseArgs") =>
        /\ mainPc = "exited"
        /\ mainErr = (IF script.tail = <<"abc", "OK">>
                        THEN "invalid syntax"
                        ELSE "status code and body are required")
        /\ sc = NoConfig
        /\ exitStatus = 1
        /\ responses = <<>>

\* A status without a body after two complete entries has been refused.
C26_Witness ==
  /\ Len(script.entries) = 2
  /\ script.tail = <<"200">>
  /\ mainPc = "exited"
  /\ mainErr = "status code and body are required"

ErrorScripts ==
  {s \in OptionScripts :
     s.gextra # <<>> \/ s.tail # <<>> \/ s.at # 0 \/ s.entries = <<>>}

\* The whole program on the refused command lines and, for comparison, on
\* the command lines of one and of two responses that it serves.
ErrorInit ==
  InitWith(ErrorScripts
             \cup {PlainScript(<<>>, es) :
                     es \in {s \in ServedScripts : RepeatSum(s, Len(s)) <= 2}})

ErrorSpec == ErrorInit /\ [][Next]_vars

\* C28: when parseArgs returns an error, main prints it (the error and the
\* usage on stderr, exit status 1; for a help request the usage on stdout,
\* exit status 0) and exits: no handler is built, nothing listens, no
\* request is accepted or answered and the cursor stays at 0.
C28_FailedParseServesNothing ==
  LET p == parseArgs(args)
  IN  (p.err # "nil" /\ mainPc # "parseArgs") =>
        /\ mainPc = "exited"
        /\ mainErr = p.err
        /\ IF p.err = "flag: help requested"
             THEN /\ printed = <<[to |-> "stdout", text |-> "usage"]>>
                  /\ exitStatus = 0
             ELSE /\ printed = <<[to |-> "stderr", text |-> p.err],
                                 [to |-> "stderr", text |-> "usage"]>>
                  /\ exitStatus = 1
        /\ sc = NoConfig
        /\ responses = <<>>
        /\ served = "none"
        /\ listener = "none"
        /\ pos = 0
        /\ \A r \in Reqs : reqPc[r] = "unsent" /\ w[r] = NewWriter /\ sdPc[r] = "none"

\* main has exited on a refused repeat count of the second entry of a
\* command line whose first entry was well formed.
C28_Witness ==
  /\ Len(script.entries) = 2
  /\ script.at = 2
  /\ script.extra = <<"-r", "0">>
  /\ mainPc = "exited"
  /\ exitStatus = 1
  /\ Len(printed) = 2
  /\ listener = "none"

\* Entries whose options can be told apart in the configuration: a body
\* argument with newlines around it or the name of a file, a repeat count
\* and a header line of their own.
ScopeEntryChoices ==
  [status : {"200"}, body : {"nOKn", "f.txt"}, repeat : 1..MaxRepeat,
   rflag : {"--repeat"}, lines : {<<>>, <<"x-a: 1">>}]

\* Options given to one entry on top of its own.
ScopeExtraChoices ==
  {<<"--trim-newline">>, <<"--body-file">>, <<"--body-file", "--trim-newline">>,
   <<"-H", "x-b: 3">>, <<"--trim-newline", "-H", "x-b: 3">>}

\* Command lines of 1..MaxEntries such entries, with or without a global
\* header line, as they are or with options added to one entry.  The
\* body-file option is given to entries whose body names the file.
ScopeScripts ==
  LET base == {PlainScript(g, es) :
                 g \in {<<>>, <<"x-b: 3">>},
                 es \in UNION {[1..n -> ScopeEntryChoices] : n \in 1..MaxEntries}}
  IN  base
        \cup UNION {{[b EXCEPT !.at = i, !.extra = x] :
                       i \in {j \in 1..Len(b.entries) : b.entries[j].body = "f.txt"},
                       x \in ScopeExtraChoices} : b \in base}
        \cup UNION {{[b EXCEPT !.at = i, !.extra = x] :
                       i \in 1..Len(b.entries),
                       x \in {y \in ScopeExtraChoices : y[1] # "--body-file"}} : b \in base}

ScopeInit == InitWith(ScopeScripts)

ScopeSpec == ScopeInit /\ [][BuildNext]_vars

\* The header an operator expects from the header lines of the scripts above.
ScopeHeader(lines) ==
  CASE lines = <<"x-a: 1">> -> ("X-A" :> <<"1">>)
    [] lines = <<"x-b: 3">> -> ("X-B" :> <<"3">>)
    [] lines = <<"x-a: 1", "x-b: 3">> -> ("X-A" :> <<"1">>) @@ ("X-B" :> <<"3">>)
    [] OTHER -> EmptyHeader

\* The body an operator expects from a body argument and the options x.
ScopeBody(arg, x) ==
  CASE arg = "nOKn" /\ x \in {<<"--trim-newline">>, <<"--trim-newline", "-H", "x-b: 3">>}
         -> <<"O", "K">>
    [] arg = "nOKn" -> <<"\n", "O", "K", "\n">>
    [] arg = "f.txt" /\ x = <<"--body-file">> -> <<"\n", "F", "\n">>
    [] arg = "f.txt" /\ x = <<"--body-file", "--trim-newline">> -> <<"F">>
    [] OTHER -> <<"f", ".", "t", "x", "t">>

\* The configuration entry expected from the script entry e given the
\* options x.
ScopeEntry(e, x) ==
  [statusCode |-> 200,
   body |-> ScopeBody(e.body, x),
   headers |-> ScopeHeader(e.lines \o (IF x # <<>> /\ x[Len(x)] = "x-b: 3"
                                          THEN <<"x-b: 3">> ELSE <<>>))]

RECURSIVE ScopeResponses(_, _, _)
\* The configuration expected from the entries es when the options extra
\* are given to entry number at: each entry with its own options only.
ScopeResponses(es, at, extra) ==
  IF es = <<>> THEN <<>>
  ELSE [i \in 1..Head(es).repeat |->
          ScopeEntry(Head(es), IF at = 1 THEN extra ELSE <<>>)]
         \o ScopeResponses(Tail(es), at - 1, extra)

\* C29: in the configuration parseArgs returns, the header lines given
\* before the first status are the global headers and are in no entry, and
\* every entry has its own repeat count, header lines, body source and
\* trimming: the options after one <status> <body> pair change that entry
\* only, and an entry without options has repeat 1, no headers and its raw
\* body argument.
C29_OptionsScoped ==
  (script \in ScopeScripts /\ mainPc = "newServer") =>
    /\ mainErr = "nil"
    /\ sc.headers = ScopeHeader(script.grobal)
    /\ sc.responses = ScopeResponses(script.entries, script.at, script.extra)

\* A command line with a global header line and two entries was parsed: the
\* first entry has no options, the second is repeated twice, has a header
\* line and reads its body from a file, trimmed.
C29_Witness ==
  /\ mainPc = "newServer"
  /\ script.grobal = <<"x-b: 3">>
  /\ Len(script.entries) = 2
  /\ script.entries[1].repeat = 1 /\ script.entries[1].lines = <<>>
  /\ script.entries[1].body = "nOKn"
  /\ script.entries[2].repeat = 2 /\ script.entries[2].lines = <<"x-a: 1">>
  /\ script.at = 2 /\ script.extra = <<"--body-file", "--trim-newline">>
  /\ Len(sc.responses) = 3
  /\ sc.responses[1].body = <<"\n", "O", "K", "\n">>
  /\ sc.responses[1].headers = EmptyHeader
  /\ sc.responses[3].body = <<"F">>
  /\ DOMAIN sc.responses[3].headers = {"X-A"}

\* C30: once the handler is built, every step leaves the cursor where it
\* is or moves it forward by one, never past the catalog length; the step
\* that makes pos = N is the return of one getResponse with isLast true;
\* from pos = N on the cursor stays at N and every getResponse that returns
\* returns (nil, false).
C30_ExhaustedIsTerminal ==
  [][ mainPc \notin {"parseArgs", "newServer"} =>
        /\ pos <= pos' /\ pos' <= pos + 1
        /\ pos' <= Len(responses)
        /\ responses' = responses
        /\ (pos < Len(responses) /\ pos' = Len(responses)) =>
             \E r \in Reqs :
               /\ reqPc[r] = "check" /\ reqPc'[r] = "ServeHTTP"
               /\ reqResp'[r] = Len(responses) - 1
               /\ reqIsLast'[r]
        /\ pos = Len(responses) =>
             /\ pos' = pos
             /\ \A r \in Reqs :
                  (reqPc[r] = "check" /\ reqPc'[r] = "ServeHTTP") =>
                    (reqResp'[r] = Nil /\ ~reqIsLast'[r])
    ]_vars

\* Both responses of a catalog of two were handed out and a later request
\* got (nil, false): its handler aborted and the cursor is still 2.
C30_Witness ==
  /\ Len(responses) = 2
  /\ pos = 2
  /\ Len(order) = 2
  /\ \E r \in Reqs : reqPc[r] = "aborted" /\ reqI[r] = 2 /\ reqResp[r] = Nil

\* The positions of a handler inside its call of getResponse, and after it.
InGetResponse == {"Lock", "check"}

AfterGetResponse ==
  {"ServeHTTP", "aborted", "DumpRequest", "logStdout", "logStderr", "headers",
   "done", "panicked"}

\* C31: a handler enters getResponse when ServeHTTP is invoked and at no
\* other point, every position after the call is reached through the
\* return of that call, and the call is never entered again; the cursor
\* counts the handlers whose call returned a response, so no request has
\* consumed two entries.
C31_OneGetResponse ==
  [][ /\ \A r \in Reqs :
           /\ (reqPc'[r] = "Lock" /\ reqPc[r] # "Lock") => reqPc[r] = "unsent"
           /\ (reqPc'[r] = "check" /\ reqPc[r] # "check") => reqPc[r] = "Lock"
           /\ (reqPc'[r] = "ServeHTTP" /\ reqPc[r] # "ServeHTTP") => reqPc[r] = "check"
           /\ reqPc'[r] \in AfterGetResponse \ {"ServeHTTP"} =>
                reqPc[r] \in AfterGetResponse
           /\ reqPc[r] \in AfterGetResponse =>
                /\ reqPc'[r] \in AfterGetResponse
                /\ reqResp'[r] = reqResp[r]
                /\ reqIsLast'[r] = reqIsLast[r]
      /\ pos' = Cardinality({r \in Reqs : reqPc'[r] \in AfterGetResponse
                                            /\ reqResp'[r] # Nil})
    ]_vars

\* Three handlers have been through getResponse on a catalog of two
\* responses, one with each outcome: a response that is not the last, the
\* last response, and none.
C31_Witness ==
  /\ Len(responses) = 2
  /\ \E a, b, c \in Reqs :
       /\ reqPc[a] = "done" /\ reqResp[a] = 0 /\ ~reqIsLast[a]
       /\ reqPc[b] = "done" /\ reqResp[b] = 1 /\ reqIsLast[b]
       /\ reqPc[c] = "aborted" /\ reqResp[c] = Nil
  /\ pos = 2

\* The handlers whose call of getResponse has returned.
Returned == {r \in Reqs : reqPc[r] \in AfterGetResponse}

\* C32: the return of a getResponse call that yields a response moves the
\* cursor forward by exactly one, the return of a call that yields nil
\* leaves it where it was, and no other step moves it; so when k calls have
\* returned on a catalog of N responses, pos = min(k, N).
C32_CursorCountsCalls ==
  [][ /\ \A r \in Reqs :
           (reqPc[r] = "check" /\ reqPc'[r] = "ServeHTTP") =>
             /\ reqResp'[r] # Nil => pos' = pos + 1
             /\ reqResp'[r] = Nil => pos' = pos
             /\ reqResp'[r] = Nil <=> pos >= Len(responses)
      /\ (\A r \in Reqs : ~(reqPc[r] = "check" /\ reqPc'[r] = "ServeHTTP")) => pos' = pos
      /\ LET k == Cardinality({r \in Reqs : reqPc'[r] \in AfterGetResponse})
             n == Len(responses')
         IN  pos' = IF k <= n THEN k ELSE n
    ]_vars

\* Three calls have returned on a catalog of two responses, the last of
\* them exhausted, and the cursor is 2.
C32_Witness ==
  /\ Len(responses) = 2
  /\ Cardinality(Returned) = 3
  /\ pos = 2
  /\ \E r \in Returned : reqI[r] = 2 /\ reqResp[r] = Nil

\* Global options that name a certificate file, a key file, both (in either
\* order, with short and long names) or neither.
CertKeyChoices ==
  {<<>>,
   <<"-c", "c.pem">>, <<"--cert", "c.pem">>,
   <<"-k", "k.pem">>, <<"--key", "k.pem">>,
   <<"-c", "c.pem", "-k", "k.pem">>, <<"--key", "k.pem", "--cert", "c.pem">>}

\* The whole program on the command lines of one and of two responses with
\* these global options.
TLSInit ==
  InitWith({[PlainScript(<<"x-a: 5">>, es) EXCEPT !.gextra = x] :
              es \in {s \in ServedScripts : RepeatSum(s, Len(s)) <= 2},
              x \in CertKeyChoices})

TLSSpec == TLSInit /\ [][Next]_vars

\* whether one of the tokens of x is in names
HasOption(x, names) == \E i \in 1..Len(x) : x[i] \in names

\* C33: parseArgs returns a configuration with a TLS configuration when
\* the certificate and the key option are both given, a configuration
\* without one when neither is given, and an error and no configuration
\* when one of the two is given alone; main then calls ListenAndServeTLS
\* when the TLS configuration is there and ListenAndServe when it is not.
C33_TLSConfig ==
  LET cert == HasOption(script.gextra, {"-c", "--cert"})
      key == HasOption(script.gextra, {"-k", "--key"})
  IN  (script.gextra \in CertKeyChoices /\ mainPc # "parseArgs") =>
        /\ (cert /\ key) => (sc # NoConfig /\ sc.tls)
        /\ (~cert /\ ~key) => (sc # NoConfig /\ ~sc.tls)
        /\ (cert /\ ~key) =>
             (sc = NoConfig /\ mainErr = "key option is not set"
                /\ mainPc = "exited" /\ exitStatus = 1)
        /\ (~cert /\ key) =>
             (sc = NoConfig /\ mainErr = "cert option is not set"
                /\ mainPc = "exited" /\ exitStatus = 1)
        /\ served = "tls" => (cert /\ key /\ sc.tls)
        /\ served = "plain" => (~cert /\ ~key /\ ~sc.tls)
        /\ mainPc \in {"serving", "wait", "returned"} => served # "none"
        /\ sc = NoConfig => (served = "none" /\ listener = "none")

\* The key option was given before the certificate option, main called
\* ListenAndServeTLS and a response was written.
C33_Witness ==
  /\ script.gextra = <<"--key", "k.pem", "--cert", "c.pem">>
  /\ sc.tls
  /\ served = "tls"
  /\ listener = "open"
  /\ Served # {}

\* C34: in every handler that was given a response the events follow one
\* another in this order: the entry is claimed by the holder of the mutex;
\* then, if it is the last entry, the shutdown goroutine is started; then
\* the dump of the request, or the failure to dump it, is logged; then the
\* headers, the status and the body are written.  Nothing is written for a
\* request that was not logged, and nothing is logged for a request before
\* its entry was claimed and, for the last entry, the shutdown started.
C34_HandlerOrder ==
  [][ \A r \in Reqs :
        \* the entry is claimed under the lock
        /\ (reqResp[r] = Nil /\ reqResp'[r] # Nil) =>
             (mu = r /\ logged[r] = "none" /\ sdPc[r] = "none" /\ w[r] = NewWriter)
        \* the shutdown goroutine is started after the claim, before the log
        /\ (sdPc[r] = "none" /\ sdPc'[r] # "none") =>
             (reqResp[r] # Nil /\ reqIsLast[r] /\ mu # r
                /\ logged[r] = "none" /\ w[r] = NewWriter)
        \* the log comes after both and before the write
        /\ (logged[r] = "none" /\ logged'[r] # "none") =>
             (reqResp[r] # Nil /\ (reqIsLast[r] => sdPc[r] # "none")
                /\ w[r] = NewWriter /\ w'[r] = NewWriter)
        \* the write comes last
        /\ w'[r] # w[r] =>
             (reqResp[r] # Nil /\ (reqIsLast[r] => sdPc[r] # "none")
                /\ logged[r] # "none" /\ w[r] = NewWriter
                /\ reqPc'[r] \in {"done", "panicked"})
        /\ reqPc'[r] = "done" => (logged'[r] # "none" /\ w'[r].code # 0)
    ]_vars

\* The handler of the last entry has started the shutdown goroutine, logged
\* that the dump of its request failed and written its response, while the
\* handler of the entry before it has logged its request and not written yet.
C34_Witness ==
  \E a, b \in Reqs :
    /\ reqPc[a] = "done" /\ reqIsLast[a] /\ sdPc[a] # "none"
    /\ logged[a] = "stderr" /\ w[a].code = 404
    /\ reqPc[b] = "headers" /\ reqResp[b] = 1 /\ logged[b] = "stdout"
    /\ w[b] = NewWriter

\* The handlers inside logger.log, between l.mu.Lock() and the unlock.
InLog == {r \in Reqs : reqPc[r] \in {"logStdout", "logStderr"}}

\* C35: at most one handler is inside logger.log, and it is the holder of
\* the logger's mutex; no goroutine holds the logger's mutex and the
\* cursor's mutex together, and a handler that waits for the logger's mutex
\* waits for a holder that can print and unlock at once.
C35_LogSerialized ==
  /\ Cardinality(InLog) <= 1
  /\ \A r \in Reqs : r \in InLog <=> logMu = r
  /\ \A r \in Reqs : ~(mu = r /\ logMu = r)
  /\ \A r \in Reqs : r \in InLog => reqPc[r] \notin InGetResponse
  /\ \A r \in Reqs :
       (reqPc[r] = "DumpRequest" /\ Running) =>
         \/ ENABLED logLock(r)
         \/ \E h \in Reqs : h # r /\ logMu = h /\ ENABLED logPrint(h)

\* One handler is inside logger.log, a second waits for the logger's mutex
\* and a third holds the cursor's mutex.
C35_Witness ==
  \E r1, r2, r3 \in Reqs :
    /\ reqPc[r1] = "logStderr" /\ logMu = r1
    /\ reqPc[r2] = "DumpRequest"
    /\ reqPc[r3] = "check" /\ mu = r3

\* C36: main is in waitForShutDown, or past it, only when the serve call
\* returned http.ErrServerClosed, which it does only after a shutdown
\* goroutine has closed the listener; while main waits, that goroutine has
\* not sent yet.  When ListenAndServe or ListenAndServeTLS returns another
\* error, main prints it to stderr and exits with status 1 and has never
\* received from shutdownCh.
C36_WaitOnlyAfterServerClosed ==
  /\ mainPc \in {"wait", "returned"} =>
       /\ mainErr = "ErrServerClosed"
       /\ listener = "closed"
       /\ \E g \in Reqs : sdPc[g] # "none"
  /\ mainPc = "wait" =>
       /\ received = "none"
       /\ \E g \in Reqs : sdPc[g] \in {"Shutdown", "waitIdle", "send"}
  /\ received # "none" => mainErr = "ErrServerClosed"
  /\ mainErr = "listen failed" =>
       /\ mainPc = "exited"
       /\ exitStatus = 1
       /\ printed = <<[to |-> "stderr", text |-> "listen failed"]>>
       /\ received = "none"
       /\ listener = "none"
       /\ \A g \in Reqs : sdPc[g] = "none"

\* ListenAndServeTLS returned an error other than ErrServerClosed and main
\* has exited with status 1.
C36_Witness ==
  /\ served = "tls"
  /\ mainErr = "listen failed"
  /\ mainPc = "exited"
  /\ exitStatus = 1
  /\ received = "none"

====
